---- MODULE Spec2Model ----
(***************************************************************************)
(* A model of the Rust-like language compiler front end:                   *)
(*   tokenizer.py  Lexer   (incremental scanner with mark/reset)           *)
(*   parser.py     Parser  (recursive descent, drives the lexer)           *)
(*   checker.py    Checker (scopes, mutability, initialization, borrows)   *)
(*   routes.py     analyze (parse, check, then drain the lexer)            *)
(* Offsets are 0-based as in the source; a string is a sequence of         *)
(* one-character strings.                                                  *)
(***************************************************************************)
EXTENDS Integers, Sequences, FiniteSets, TLC

VARIABLES
    code,      \* Lexer.code: the source text
    lx,        \* the Lexer's fields: pos, buffer, eof_buffered, emitted, eof_emitted
    snaps,     \* the tuples mark() has returned, as they are now (their lists are mutable)
    alias,     \* index in snaps of the tuple whose lists the lexer's fields are, 0 if none
    hist,      \* history: what mark() saw, which tuples were reset to, the last call
    run        \* analyze: the step the request handler is at, and its locals

vars == <<code, lx, snaps, alias, hist, run>>

(***************************************************************************)
(* Bounds of the model                                                     *)
(***************************************************************************)
MaxCodeLen == 2
MaxPeek == 0
MaxSnaps == 1
MaxEmitted == 2
MaxBuffer == 1
MaxResets == 2
MaxLexemes == 3
MaxStmts == 3
MaxSteps == 2000

(***************************************************************************)
(* tokenizer.py: character classes and the token specification             *)
(***************************************************************************)
Letters ==
    {"a","b","c","d","e","f","g","h","i","j","k","l","m","n","o","p","q","r","s",
     "t","u","v","w","x","y","z","A","B","C","D","E","F","G","H","I","J","K","L",
     "M","N","O","P","Q","R","S","T","U","V","W","X","Y","Z"}

Digits == {"0","1","2","3","4","5","6","7","8","9"}

Spaces == {" ", "\n", "\t"}

IdStart == Letters \cup {"_"}

IdPart == IdStart \cup Digits

KEYWORDS ==
    { <<"i","3","2">>, <<"l","e","t">>, <<"i","f">>, <<"e","l","s","e">>,
      <<"w","h","i","l","e">>, <<"r","e","t","u","r","n">>, <<"m","u","t">>,
      <<"f","n">>, <<"f","o","r">>, <<"i","n">>, <<"l","o","o","p">>,
      <<"b","r","e","a","k">>, <<"c","o","n","t","i","n","u","e">> }

\* value.upper() of a keyword
Upper(value) ==
    CASE value = <<"i","3","2">> -> "I32"
      [] value = <<"l","e","t">> -> "LET"
      [] value = <<"i","f">> -> "IF"
      [] value = <<"e","l","s","e">> -> "ELSE"
      [] value = <<"w","h","i","l","e">> -> "WHILE"
      [] value = <<"r","e","t","u","r","n">> -> "RETURN"
      [] value = <<"m","u","t">> -> "MUT"
      [] value = <<"f","n">> -> "FN"
      [] value = <<"f","o","r">> -> "FOR"
      [] value = <<"i","n">> -> "IN"
      [] value = <<"l","o","o","p">> -> "LOOP"
      [] value = <<"b","r","e","a","k">> -> "BREAK"
      [] OTHER -> "CONTINUE"

TOKEN_SPECIFICATION ==
    << "COMMENT", "WS", "ARROW", "DOTDOT", "DOT", "NUMBER", "ID", "OP",
       "ASSIGN", "DELIM", "SEP", "ANDMUT", "AND" >>

\* the character at 0-based offset i of text s, "" past the end
Ch(s, i) == IF i >= 0 /\ i < Len(s) THEN s[i + 1] ELSE ""

\* s[a:b]
Slice(s, a, b) == SubSeq(s, a + 1, b)

\* whether the literal lit occurs in s at offset p
Lit(s, p, lit) == \A j \in 1..Len(lit) : Ch(s, p + j - 1) = lit[j]

\* the end of the longest run of characters of set S starting at offset p
RunEnd(s, p, S) ==
    CHOOSE e \in p..Len(s) :
        /\ \A i \in p..(e - 1) : Ch(s, i) \in S
        /\ Ch(s, e) \notin S

\* the end offset of the match of one pattern at offset p of s, -1 if it does
\* not match there (each pattern as re matches it: alternatives in order,
\* greedy repetition, *? lazy)
MatchEnd(kind, s, p) ==
    CASE kind = "COMMENT" ->
            IF Lit(s, p, <<"/", "/">>)
            THEN CHOOSE e \in (p + 2)..Len(s) :
                    /\ \A i \in (p + 2)..(e - 1) : Ch(s, i) # "\n"
                    /\ (e = Len(s) \/ Ch(s, e) = "\n")
            ELSE IF /\ Lit(s, p, <<"/", "*">>)
                    /\ \E q \in (p + 2)..Len(s) : Lit(s, q, <<"*", "/">>)
                 THEN 2 + CHOOSE q \in (p + 2)..Len(s) :
                            /\ Lit(s, q, <<"*", "/">>)
                            /\ \A r \in (p + 2)..(q - 1) : ~Lit(s, r, <<"*", "/">>)
                 ELSE -1
      [] kind = "WS" -> IF Ch(s, p) \in Spaces THEN RunEnd(s, p, Spaces) ELSE -1
      [] kind = "ARROW" -> IF Lit(s, p, <<"-", ">">>) THEN p + 2 ELSE -1
      [] kind = "DOTDOT" -> IF Lit(s, p, <<".", ".">>) THEN p + 2 ELSE -1
      [] kind = "DOT" -> IF Ch(s, p) = "." THEN p + 1 ELSE -1
      [] kind = "NUMBER" -> IF Ch(s, p) \in Digits THEN RunEnd(s, p, Digits) ELSE -1
      [] kind = "ID" -> IF Ch(s, p) \in IdStart THEN RunEnd(s, p, IdPart) ELSE -1
      [] kind = "OP" ->
            IF \/ Lit(s, p, <<"=", "=">>) \/ Lit(s, p, <<">", "=">>)
               \/ Lit(s, p, <<"<", "=">>) \/ Lit(s, p, <<"!", "=">>)
            THEN p + 2
            ELSE IF Ch(s, p) \in {">", "<", "+", "-", "*", "/"} THEN p + 1 ELSE -1
      [] kind = "ASSIGN" -> IF Ch(s, p) = "=" THEN p + 1 ELSE -1
      [] kind = "DELIM" ->
            IF Ch(s, p) \in {"(", ")", "{", "}", "[", "]"} THEN p + 1 ELSE -1
      [] kind = "SEP" -> IF Ch(s, p) \in {";", ":", ","} THEN p + 1 ELSE -1
      [] kind = "ANDMUT" -> IF Lit(s, p, <<"&", "m", "u", "t">>) THEN p + 4 ELSE -1
      [] OTHER -> IF Ch(s, p) = "&" THEN p + 1 ELSE -1

\* the least element of a set of numbers, -1 if it is empty
MinOrNone(S) == IF S = {} THEN -1 ELSE CHOOSE q \in S : \A r \in S : q <= r

\* whether some pattern of the combined regular expression matches at offset p
MatchesAt(s, p) ==
    \E n \in 1..Len(TOKEN_SPECIFICATION) : MatchEnd(TOKEN_SPECIFICATION[n], s, p) # -1

\* m.lastgroup of a match at offset p: the first pattern, in list order, matching there
LastGroup(s, p) ==
    TOKEN_SPECIFICATION[
        MinOrNone({n \in 1..Len(TOKEN_SPECIFICATION) :
                      MatchEnd(TOKEN_SPECIFICATION[n], s, p) # -1})]

\* mutant: the scanner matching at the offset only (re.match instead of re.search)
SearchStartAnchored(s, p) == IF MatchesAt(s, p) THEN p ELSE -1

\* self._scanner.search(self.code, self._pos): m.start() of the leftmost match
\* at or after offset p, -1 if re.search returns None
RECURSIVE SearchStart(_, _)
SearchStart(s, p) ==
    IF p >= Len(s) THEN -1
    ELSE IF MatchesAt(s, p) THEN p
    ELSE SearchStart(s, p + 1)

EOFToken(s) == [type |-> "EOF", value |-> <<>>, pos |-> Len(s)]

NoToken == [type |-> "None", value |-> <<>>, pos |-> -1]

\* Lexer.__init__
NewLexer ==
    [pos |-> 0, buffer |-> <<>>, emitted |-> <<>>,
     eof_emitted |-> FALSE, eof_buffered |-> FALSE]

\* the token of kind `kind` and text `value` found at offset start; an
\* identifier that is a keyword takes the keyword's upper-case tag
TokenOf(kind, value, start) ==
    [type |-> IF kind = "ID" /\ value \in KEYWORDS THEN Upper(value) ELSE kind,
     value |-> value, pos |-> start]

\* the while loop of Lexer._scan_next; Matched is the part of an iteration
\* after a match m of pattern `kind` at start..end
RECURSIVE ScanLoop(_, _)
Matched(s, L, kind, start, end) ==
    IF kind \in {"WS", "COMMENT"}
    THEN ScanLoop(s, [L EXCEPT !.pos = end])
    ELSE [L EXCEPT !.pos = end,
                   !.buffer = Append(@, TokenOf(kind, Slice(s, start, end), start))]

Searched(s, L, start) ==
    IF start = -1
    THEN [L EXCEPT !.buffer = Append(@, EOFToken(s)),
                   !.pos = Len(s), !.eof_buffered = TRUE]
    ELSE Matched(s, L, LastGroup(s, start), start,
                 MatchEnd(LastGroup(s, start), s, start))

ScanLoop(s, L) ==
    IF L.pos >= Len(s)
    THEN [L EXCEPT !.buffer = Append(@, EOFToken(s)), !.eof_buffered = TRUE]
    ELSE Searched(s, L, SearchStart(s, L.pos))

\* Lexer._scan_next
ScanNext(s, L) == IF L.eof_buffered THEN L ELSE ScanLoop(s, L)

\* Lexer.peek: [lex, out, ret]; out is "hang" when the while loop cannot end
\* (an iteration that changes nothing leaves its condition true for ever).
\* Scanned is the loop after one call of _scan_next that gave L2.
RECURSIVE PeekOf(_, _, _)
Scanned(s, L, k, L2) ==
    IF L2 = L THEN [lex |-> L, out |-> "hang", ret |-> NoToken]
    ELSE PeekOf(s, L2, k)

PeekOf(s, L, k) ==
    IF Len(L.buffer) <= k
    THEN Scanned(s, L, k, ScanNext(s, L))
    ELSE [lex |-> L, out |-> "ok", ret |-> L.buffer[k + 1]]

\* Lexer.next_token after its call of _scan_next: list.pop(0) of an empty
\* buffer raises IndexError
PopToken(L1) ==
    IF L1.buffer = <<>>
    THEN [lex |-> L1, out |-> "IndexError", ret |-> NoToken]
    ELSE [lex |-> [L1 EXCEPT !.buffer = Tail(@),
                             !.emitted = Append(@, Head(L1.buffer)),
                             !.eof_emitted =
                                 IF Head(L1.buffer).type = "EOF" THEN TRUE ELSE @],
          out |-> "ok", ret |-> Head(L1.buffer)]

\* Lexer.next_token
NextTokenOf(s, L) == PopToken(IF L.buffer = <<>> THEN ScanNext(s, L) ELSE L)

\* mutant: a drain loop that stops in front of EOF instead of consuming it
RECURSIVE DrainBeforeEof(_, _)
DrainBeforeEof(s, L) ==
    LET p == PeekOf(s, L, 0) IN
    IF p.out # "ok" \/ p.ret.type = "EOF" THEN [p EXCEPT !.ret = NoToken]
    ELSE DrainBeforeEof(s, NextTokenOf(s, p.lex).lex)

\* Lexer.drain_to_eof; Drained is an iteration after tok = self.peek(0) gave p
RECURSIVE DrainOf(_, _)
Drained(s, p) ==
    IF p.out # "ok" THEN p
    ELSE IF p.ret.type = "EOF"
         THEN [NextTokenOf(s, p.lex) EXCEPT !.ret = NoToken]
         ELSE DrainOf(s, NextTokenOf(s, p.lex).lex)

DrainOf(s, L) == Drained(s, PeekOf(s, L, 0))

\* Lexer.get_tokens
GetTokens(L) == L.emitted

\* tokenize(code)
Tokenize(s) == GetTokens(DrainOf(s, NewLexer).lex)

\* the last element of a list
Last(q) == q[Len(q)]

(***************************************************************************)
(* parser.py: the recursive-descent parser, as a machine with a call stack. *)
(* A frame is a method, the place pc in it, and its locals v.  A method is  *)
(* an operator of pc, v and r, the value the operation before pc gave; it   *)
(* says what is done at pc and where the method goes on:                    *)
(*   Do      calls peek, match, expect, or the lexer's mark or reset        *)
(*   Invoke  calls a parse method                                           *)
(*   Return  returns a value                                                *)
(*   Raise   raises an exception                                            *)
(* v.catch is the place of the except clause of the try block the method    *)
(* is in, 0 outside try blocks.  Two peeks in a row ("peek().type == ...    *)
(* and peek().value == ...") are one: the second returns what the first did.*)
(***************************************************************************)
None == [type |-> "None"]

\* an operation on an object returned v and left the object as S
Ok(S, v) == [self |-> S, out |-> "ok", val |-> v]

\* an operation on an object raised exc
Fail(S, exc) == [self |-> S, out |-> exc, val |-> None]

\* a result of the lexer as a result of the parser (Parser._to_token keeps
\* type, value and pos)
ToResult(p) == [self |-> p.lex, out |-> p.out, val |-> p.ret]

\* Parser.peek
peek(L, step) == ToResult(PeekOf(code, L, step))

\* Parser.match after its call of peek gave tok; a holds *token_types, and
\* values if given
Consumed(tok, a) ==
    IF tok.out # "ok" THEN tok
    ELSE IF tok.val.type \in a.token_types
            /\ ("values" \in DOMAIN a => tok.val.value \in a.values)
         THEN ToResult(NextTokenOf(code, tok.self))
         ELSE Ok(tok.self, None)

\* Parser.match
match(L, a) == Consumed(peek(L, 0), a)

\* Parser.expect after its call of match gave tok: without a token, it
\* peeks for the message and raises
Expected(tok) ==
    IF tok.out # "ok" \/ tok.val # None THEN tok
    ELSE [peek(tok.self, 0) EXCEPT !.out = IF @ = "ok" THEN "SyntaxError" ELSE @,
                                  !.val = None]

\* Parser.expect
expect(L, a) == Expected(match(L, a))

\* mutant: a reset that leaves the emitted list as it is
ResetKeepEmitted(L, state) ==
    [L EXCEPT !.pos = state[1], !.buffer = state[2], !.eof_buffered = state[3],
              !.eof_emitted = state[5]]

\* Lexer.mark: the tuple returned.  The parser resets to a tuple at most
\* once and drops it, so that the lists are shared afterwards is not seen.
MarkOf(L) == <<L.pos, L.buffer, L.eof_buffered, L.emitted, L.eof_emitted>>

\* Lexer.reset(state)
ResetOf(L, state) ==
    [L EXCEPT !.pos = state[1], !.buffer = state[2], !.eof_buffered = state[3],
              !.emitted = state[4], !.eof_emitted = state[5]]

\* the arguments of match and expect
Types(S) == [token_types |-> S]

Valued(S, V) == [token_types |-> S, values |-> V]

Delim(c) == Valued({"DELIM"}, {<<c>>})

Sep(c) == Valued({"SEP"}, {<<c>>})

\* tok.type == 'DELIM' and tok.value == c
IsDelim(tok, c) == tok.type = "DELIM" /\ tok.value = <<c>>

IsSep(tok, c) == tok.type = "SEP" /\ tok.value = <<c>>

DigitChars == <<"0","1","2","3","4","5","6","7","8","9">>

\* int(value) of a NUMBER token
RECURSIVE int(_)
int(value) ==
    IF value = <<>> THEN 0
    ELSE 10 * int(SubSeq(value, 1, Len(value) - 1))
         + ((CHOOSE d \in 1..Len(DigitChars) : DigitChars[d] = value[Len(value)]) - 1)

\* what a method does at a place
Do(op, a, pc, v) == [k |-> "do", op |-> op, a |-> a, pc |-> pc, v |-> v]

\* a call of method fn with arguments a
InvokeWith(fn, a, pc, v) == [k |-> "invoke", fn |-> fn, a |-> a, pc |-> pc, v |-> v]

Invoke(fn, pc, v) == InvokeWith(fn, None, pc, v)

\* the place pc of the same method: the head of a loop
Goto(pc, v) == [k |-> "goto", pc |-> pc, v |-> v]

Return(val) == [k |-> "return", val |-> val]

Raise(exc) == [k |-> "raise", exc |-> exc]

\* the locals v with local n set to x
With(v, n, x) == [m \in DOMAIN v \cup {n} |-> IF m = n THEN x ELSE v[m]]

\* Parser.parse_program
parse_program(pc, v, r) ==
    CASE pc = 0 -> Do("peek", 0, 1, With(v, "decls", <<>>))
      [] pc = 1 -> IF r.type # "EOF" THEN Invoke("parse_function", 2, v)
                   ELSE Return([type |-> "Program", decls |-> v.decls])
      [] pc = 2 -> Do("peek", 0, 1, [v EXCEPT !.decls = Append(@, r)])

\* Parser.parse_function
parse_function(pc, v, r) ==
    CASE pc = 0 -> Do("expect", Types({"FN"}), 1, v)
      [] pc = 1 -> Do("expect", Types({"ID"}), 2, v)
      [] pc = 2 -> Do("expect", Delim("("), 3, With(v, "name", r))
      [] pc = 3 -> Invoke("parse_params", 4, v)
      [] pc = 4 -> Do("expect", Delim(")"), 5, With(v, "params", r))
      [] pc = 5 -> Do("match", Types({"ARROW"}), 6, v)
      [] pc = 6 -> IF r # None THEN Invoke("parse_type", 7, v)
                   ELSE Invoke("parse_func_body", 8, With(v, "ret_type", None))
      [] pc = 7 -> Invoke("parse_func_body", 8, With(v, "ret_type", r))
      [] pc = 8 -> Return([type |-> "Function", name |-> v.name.value,
                           params |-> v.params, ret_type |-> v.ret_type, body |-> r])

\* Parser.parse_params
parse_params(pc, v, r) ==
    CASE pc = 0 -> Do("peek", 0, 1, With(v, "params", <<>>))
      [] pc = 1 -> IF IsDelim(r, ")") THEN Return(v.params)
                   ELSE Do("match", Types({"MUT"}), 2, v)
      [] pc = 2 -> Do("expect", Types({"ID"}), 3, With(v, "mut", r))
      [] pc = 3 -> Do("expect", Sep(":"), 4, With(v, "pname", r))
      [] pc = 4 -> Invoke("parse_type", 5, v)
      [] pc = 5 -> Do("match", Sep(","), 6,
                      [v EXCEPT !.params =
                          Append(@, [mut |-> v.mut # None, name |-> v.pname.value,
                                     type |-> r])])
      [] pc = 6 -> IF r # None THEN Do("match", Types({"MUT"}), 2, v)
                   ELSE Return(v.params)

\* Parser.parse_type
parse_type(pc, v, r) ==
    CASE pc = 0 -> Do("match", Types({"ANDMUT"}), 1, v)
      [] pc = 1 -> IF r # None THEN Invoke("parse_type", 2, v)
                   ELSE Do("match", Types({"AND"}), 3, v)
      [] pc = 2 -> Return([ref |-> "mut", to |-> r])
      [] pc = 3 -> IF r # None THEN Invoke("parse_type", 4, v)
                   ELSE Do("match", Delim("["), 5, v)
      [] pc = 4 -> Return([ref |-> "imm", to |-> r])
      [] pc = 5 -> IF r # None THEN Invoke("parse_type", 6, v)
                   ELSE Do("match", Delim("("), 10, v)
      [] pc = 6 -> Do("expect", Sep(";"), 7, With(v, "ty", r))
      [] pc = 7 -> Do("expect", Types({"NUMBER"}), 8, v)
      [] pc = 8 -> Do("expect", Delim("]"), 9, With(v, "num", r))
      [] pc = 9 -> Return([array |-> v.ty, size |-> int(v.num.value)])
      [] pc = 10 -> IF r # None THEN Do("peek", 0, 11, With(v, "inner", <<>>))
                    ELSE Do("match", Types({"I32"}), 16, v)
      [] pc = 11 -> IF IsDelim(r, ")") THEN Do("match", Delim(")"), 12, v)
                    ELSE Invoke("parse_type", 13, v)
      [] pc = 12 -> Return([tuple |-> <<>>])
      [] pc = 13 -> Do("match", Sep(","), 14, [v EXCEPT !.inner = Append(@, r)])
      [] pc = 14 -> IF r # None THEN Invoke("parse_type", 13, v)
                    ELSE Do("expect", Delim(")"), 15, v)
      [] pc = 15 -> Return([tuple |-> v.inner])
      [] pc = 16 -> IF r = None THEN Do("peek", 0, 17, v)
                    ELSE Return([id |-> r.value])
      [] pc = 17 -> Raise("SyntaxError")

\* Parser.parse_func_body
parse_func_body(pc, v, r) ==
    CASE pc = 0 -> Do("peek", 0, 1, v)
      [] pc = 1 -> IF IsDelim(r, "{") THEN Invoke("parse_block", 2, v)
                   ELSE Invoke("parse_expr", 2, v)
      [] pc = 2 -> Return(r)

\* mutant: the except clause goes back to the mark and tries the statement
\* again
parse_block_retry(pc, v, r) ==
    CASE pc = 0 -> Do("expect", Delim("{"), 1, With(v, "stmts", <<>>))
      [] pc = 1 -> Do("peek", 0, 2, v)
      [] pc = 2 -> IF IsDelim(r, "}") THEN Do("match", Delim("}"), 3, v)
                   ELSE Do("mark", None, 4, v)
      [] pc = 3 -> Return([type |-> "Block", stmts |-> v.stmts])
      [] pc = 4 -> Invoke("parse_stmt", 5, With(With(v, "mark", r), "catch", 6))
      [] pc = 5 -> Do("peek", 0, 2, [v EXCEPT !.stmts = Append(@, r), !.catch = 0])
      [] pc = 6 -> Do("reset", v.mark, 1, v)
      [] pc = 7 -> Invoke("parse_expr", 8, v)
      [] pc = 8 -> Do("peek", 0, 9, With(v, "expr", r))
      [] pc = 9 -> IF IsDelim(r, "}") THEN Do("match", Delim("}"), 10, v)
                   ELSE Do("expect", Sep(";"), 11, v)
      [] pc = 10 -> Return([type |-> "Block",
                            stmts |-> Append(v.stmts, [type |-> "ExprStmt",
                                                       expr |-> v.expr, tail |-> TRUE])])
      [] pc = 11 -> Do("peek", 0, 2,
                       [v EXCEPT !.stmts = Append(@, [type |-> "ExprStmt",
                                                      expr |-> v.expr])])

\* Parser.parse_block: the try covers parse_stmt and the append; the except
\* clause (place 6) backtracks to the mark and parses an expression
parse_block(pc, v, r) ==
    CASE pc = 0 -> Do("expect", Delim("{"), 1, With(v, "stmts", <<>>))
      [] pc = 1 -> Do("peek", 0, 2, v)
      [] pc = 2 -> IF IsDelim(r, "}") THEN Do("match", Delim("}"), 3, v)
                   ELSE Do("mark", None, 4, v)
      [] pc = 3 -> Return([type |-> "Block", stmts |-> v.stmts])
      [] pc = 4 -> Invoke("parse_stmt", 5, With(With(v, "mark", r), "catch", 6))
      [] pc = 5 -> Do("peek", 0, 2, [v EXCEPT !.stmts = Append(@, r), !.catch = 0])
      [] pc = 6 -> Do("reset", v.mark, 7, v)
      [] pc = 7 -> Invoke("parse_expr", 8, v)
      [] pc = 8 -> Do("peek", 0, 9, With(v, "expr", r))
      [] pc = 9 -> IF IsDelim(r, "}") THEN Do("match", Delim("}"), 10, v)
                   ELSE Do("expect", Sep(";"), 11, v)
      [] pc = 10 -> Return([type |-> "Block",
                            stmts |-> Append(v.stmts, [type |-> "ExprStmt",
                                                       expr |-> v.expr, tail |-> TRUE])])
      [] pc = 11 -> Do("peek", 0, 2,
                       [v EXCEPT !.stmts = Append(@, [type |-> "ExprStmt",
                                                      expr |-> v.expr])])

\* Parser.parse_stmt
parse_stmt(pc, v, r) ==
    CASE pc = 0 -> Do("peek", 0, 1, v)
      [] pc = 1 ->
            CASE r.type = "LET" -> Invoke("parse_let_stmt", 2, v)
              [] r.type = "RETURN" -> Invoke("parse_return_stmt", 2, v)
              [] r.type = "IF" -> Invoke("parse_if_stmt", 2, v)
              [] r.type = "WHILE" -> Invoke("parse_while_stmt", 2, v)
              [] r.type = "FOR" -> Invoke("parse_for_stmt", 2, v)
              [] r.type = "LOOP" -> Invoke("parse_loop_stmt", 2, v)
              [] r.type = "BREAK" -> Invoke("parse_break_stmt", 2, v)
              [] r.type = "CONTINUE" -> Invoke("parse_continue_stmt", 2, v)
              [] IsSep(r, ";") -> Do("match", Types({"SEP"}), 3, v)
              [] OTHER -> Invoke("parse_assign_or_expr_stmt", 2, v)
      [] pc = 2 -> Return(r)
      [] pc = 3 -> Return([type |-> "Empty"])

\* Parser.parse_let_stmt
parse_let_stmt(pc, v, r) ==
    CASE pc = 0 -> Do("expect", Types({"LET"}), 1, v)
      [] pc = 1 -> Do("match", Types({"MUT"}), 2, v)
      [] pc = 2 -> Do("expect", Types({"ID"}), 3, With(v, "mut", r))
      [] pc = 3 -> Do("match", Sep(":"), 4, With(v, "name", r))
      [] pc = 4 -> IF r # None THEN Invoke("parse_type", 5, v)
                   ELSE Do("match", Types({"ASSIGN"}), 6, With(v, "ty", None))
      [] pc = 5 -> Do("match", Types({"ASSIGN"}), 6, With(v, "ty", r))
      [] pc = 6 -> IF r # None THEN Invoke("parse_expr", 7, v)
                   ELSE Do("expect", Sep(";"), 8, With(v, "val", None))
      [] pc = 7 -> Do("expect", Sep(";"), 8, With(v, "val", r))
      [] pc = 8 -> Return([type |-> "Let", mut |-> v.mut # None, name |-> v.name.value,
                           ty |-> v.ty, val |-> v.val])

\* Parser.parse_return_stmt
parse_return_stmt(pc, v, r) ==
    CASE pc = 0 -> Do("expect", Types({"RETURN"}), 1, v)
      [] pc = 1 -> Do("peek", 0, 2, v)
      [] pc = 2 -> IF ~IsSep(r, ";") THEN Invoke("parse_expr", 3, v)
                   ELSE Do("expect", Sep(";"), 4, With(v, "expr", None))
      [] pc = 3 -> Do("expect", Sep(";"), 4, With(v, "expr", r))
      [] pc = 4 -> Return([type |-> "Return", expr |-> v.expr])

\* Parser.parse_if_stmt
parse_if_stmt(pc, v, r) ==
    CASE pc = 0 -> Do("expect", Types({"IF"}), 1, v)
      [] pc = 1 -> Invoke("parse_expr", 2, v)
      [] pc = 2 -> Invoke("parse_block_or_expr", 3, With(v, "cond", r))
      [] pc = 3 -> Do("match", Types({"ELSE"}), 4, With(v, "then_block", r))
      [] pc = 4 -> IF r # None THEN Do("peek", 0, 5, v)
                   ELSE Return([type |-> "If", cond |-> v.cond, then |-> v.then_block,
                                else |-> None])
      [] pc = 5 -> IF r.type = "IF" THEN Invoke("parse_if_stmt", 6, v)
                   ELSE Invoke("parse_block_or_expr", 6, v)
      [] pc = 6 -> Return([type |-> "If", cond |-> v.cond, then |-> v.then_block,
                           else |-> r])

\* Parser.parse_while_stmt
parse_while_stmt(pc, v, r) ==
    CASE pc = 0 -> Do("expect", Types({"WHILE"}), 1, v)
      [] pc = 1 -> Invoke("parse_expr", 2, v)
      [] pc = 2 -> Invoke("parse_block_or_expr", 3, With(v, "cond", r))
      [] pc = 3 -> Return([type |-> "While", cond |-> v.cond, body |-> r])

\* Parser.parse_for_stmt
parse_for_stmt(pc, v, r) ==
    CASE pc = 0 -> Do("expect", Types({"FOR"}), 1, v)
      [] pc = 1 -> Do("match", Types({"MUT"}), 2, v)
      [] pc = 2 -> Do("expect", Types({"ID"}), 3, With(v, "mut", r))
      [] pc = 3 -> Do("expect", Types({"IN"}), 4, With(v, "name", r))
      [] pc = 4 -> Invoke("parse_iterable", 5, v)
      [] pc = 5 -> Invoke("parse_block_or_expr", 6, With(v, "iterobj", r))
      [] pc = 6 -> Return([type |-> "For",
                           iter |-> [mut |-> v.mut # None, name |-> v.name.value,
                                     iter |-> v.iterobj],
                           body |-> r])

\* Parser.parse_iterable
parse_iterable(pc, v, r) ==
    CASE pc = 0 -> Invoke("parse_expr", 1, v)
      [] pc = 1 -> Do("match", Types({"DOTDOT"}), 2, With(v, "left", r))
      [] pc = 2 -> IF r # None THEN Invoke("parse_expr", 3, v) ELSE Return(v.left)
      [] pc = 3 -> Return([range |-> <<v.left, r>>])

\* Parser.parse_loop_stmt
parse_loop_stmt(pc, v, r) ==
    CASE pc = 0 -> Do("expect", Types({"LOOP"}), 1, v)
      [] pc = 1 -> Invoke("parse_block_or_expr", 2, v)
      [] pc = 2 -> Return([type |-> "Loop", body |-> r])

\* Parser.parse_break_stmt
parse_break_stmt(pc, v, r) ==
    CASE pc = 0 -> Do("expect", Types({"BREAK"}), 1, v)
      [] pc = 1 -> Do("peek", 0, 2, v)
      [] pc = 2 -> IF ~IsSep(r, ";") THEN Invoke("parse_expr", 3, v)
                   ELSE Do("expect", Sep(";"), 4, With(v, "expr", None))
      [] pc = 3 -> Do("expect", Sep(";"), 4, With(v, "expr", r))
      [] pc = 4 -> Return([type |-> "Break", expr |-> v.expr])

\* Parser.parse_continue_stmt
parse_continue_stmt(pc, v, r) ==
    CASE pc = 0 -> Do("expect", Types({"CONTINUE"}), 1, v)
      [] pc = 1 -> Do("expect", Sep(";"), 2, v)
      [] pc = 2 -> Return([type |-> "Continue"])

\* Parser.parse_assign_or_expr_stmt: the try covers the body; the except
\* clause (place 7) resets the lexer to the mark and raises SyntaxError again
parse_assign_or_expr_stmt(pc, v, r) ==
    CASE pc = 0 -> Do("mark", None, 1, v)
      [] pc = 1 -> Invoke("parse_expr", 2, With(With(v, "mark", r), "catch", 7))
      [] pc = 2 -> Do("match", Types({"ASSIGN"}), 3, With(v, "expr", r))
      [] pc = 3 -> IF r # None THEN Invoke("parse_expr", 4, v)
                   ELSE Do("expect", Sep(";"), 6, v)
      [] pc = 4 -> Do("expect", Sep(";"), 5, With(v, "val", r))
      [] pc = 5 -> Return([type |-> "Assign", target |-> v.expr, val |-> v.val])
      [] pc = 6 -> Return([type |-> "ExprStmt", expr |-> v.expr])
      [] pc = 7 -> Do("reset", v.mark, 8, v)
      [] pc = 8 -> Raise("SyntaxError")

\* Parser.parse_block_or_expr
parse_block_or_expr(pc, v, r) ==
    CASE pc = 0 -> Do("peek", 0, 1, v)
      [] pc = 1 -> IF IsDelim(r, "{") THEN Invoke("parse_block", 2, v)
                   ELSE Invoke("parse_expr", 2, v)
      [] pc = 2 -> Return(r)

\* Parser.parse_expr
parse_expr(pc, v, r) ==
    CASE pc = 0 -> Invoke("parse_if_expr", 1, v)
      [] pc = 1 -> Return(r)

\* Parser.parse_if_expr
parse_if_expr(pc, v, r) ==
    CASE pc = 0 -> Do("peek", 0, 1, v)
      [] pc = 1 -> IF r.type = "IF" THEN Do("match", Types({"IF"}), 2, v)
                   ELSE Invoke("parse_loop_expr", 7, v)
      [] pc = 2 -> Invoke("parse_expr", 3, v)
      [] pc = 3 -> Invoke("parse_block_or_expr", 4, With(v, "cond", r))
      [] pc = 4 -> Do("expect", Types({"ELSE"}), 5, With(v, "then_block", r))
      [] pc = 5 -> Invoke("parse_block_or_expr", 6, v)
      [] pc = 6 -> Return([type |-> "IfExpr", cond |-> v.cond, then |-> v.then_block,
                           else |-> r])
      [] pc = 7 -> Return(r)

\* Parser.parse_loop_expr
parse_loop_expr(pc, v, r) ==
    CASE pc = 0 -> Do("peek", 0, 1, v)
      [] pc = 1 -> IF r.type = "LOOP" THEN Do("match", Types({"LOOP"}), 2, v)
                   ELSE Invoke("parse_cmp_expr", 4, v)
      [] pc = 2 -> Invoke("parse_block_or_expr", 3, v)
      [] pc = 3 -> Return([type |-> "LoopExpr", body |-> r])
      [] pc = 4 -> Return(r)

CmpOps == {<<"=","=">>, <<"!","=">>, <<"<">>, <<">">>, <<"<","=">>, <<">","=">>}

AddOps == {<<"+">>, <<"-">>}

MulOps == {<<"*">>, <<"/">>}

BinaryOp(op, left, right) ==
    [type |-> "BinaryOp", op |-> op, left |-> left, right |-> right]

\* Parser.parse_cmp_expr
parse_cmp_expr(pc, v, r) ==
    CASE pc = 0 -> Invoke("parse_add_expr", 1, v)
      [] pc = 1 -> Do("peek", 0, 2, With(v, "left", r))
      [] pc = 2 -> IF r.type = "OP" /\ r.value \in CmpOps
                   THEN Do("match", Types({"OP"}), 3, v)
                   ELSE Return(v.left)
      [] pc = 3 -> Invoke("parse_add_expr", 4, With(v, "op", r.value))
      [] pc = 4 -> Do("peek", 0, 2, [v EXCEPT !.left = BinaryOp(v.op, @, r)])

\* Parser.parse_add_expr
parse_add_expr(pc, v, r) ==
    CASE pc = 0 -> Invoke("parse_mul_expr", 1, v)
      [] pc = 1 -> Do("peek", 0, 2, With(v, "left", r))
      [] pc = 2 -> IF r.type = "OP" /\ r.value \in AddOps
                   THEN Do("match", Types({"OP"}), 3, v)
                   ELSE Return(v.left)
      [] pc = 3 -> Invoke("parse_mul_expr", 4, With(v, "op", r.value))
      [] pc = 4 -> Do("peek", 0, 2, [v EXCEPT !.left = BinaryOp(v.op, @, r)])

\* Parser.parse_mul_expr
parse_mul_expr(pc, v, r) ==
    CASE pc = 0 -> Invoke("parse_unary_expr", 1, v)
      [] pc = 1 -> Do("peek", 0, 2, With(v, "left", r))
      [] pc = 2 -> IF r.type = "OP" /\ r.value \in MulOps
                   THEN Do("match", Types({"OP"}), 3, v)
                   ELSE Return(v.left)
      [] pc = 3 -> Invoke("parse_unary_expr", 4, With(v, "op", r.value))
      [] pc = 4 -> Do("peek", 0, 2, [v EXCEPT !.left = BinaryOp(v.op, @, r)])

\* Parser.parse_unary_expr
parse_unary_expr(pc, v, r) ==
    CASE pc = 0 -> Do("match", Valued({"OP"}, {<<"-">>}), 1, v)
      [] pc = 1 -> IF r # None THEN Invoke("parse_unary_expr", 2, v)
                   ELSE Do("match", Valued({"OP"}, {<<"*">>}), 3, v)
      [] pc = 2 -> Return([type |-> "UnaryOp", op |-> <<"-">>, expr |-> r])
      [] pc = 3 -> IF r # None THEN Invoke("parse_unary_expr", 4, v)
                   ELSE Do("match", Types({"ANDMUT"}), 5, v)
      [] pc = 4 -> Return([type |-> "Deref", expr |-> r])
      [] pc = 5 -> IF r # None THEN Invoke("parse_unary_expr", 6, v)
                   ELSE Do("match", Types({"AND"}), 7, v)
      [] pc = 6 -> Return([type |-> "AddrOfMut", expr |-> r])
      [] pc = 7 -> IF r # None THEN Invoke("parse_unary_expr", 8, v)
                   ELSE Invoke("parse_postfix_expr", 9, v)
      [] pc = 8 -> Return([type |-> "AddrOf", expr |-> r])
      [] pc = 9 -> Return(r)

\* Parser.parse_postfix_expr
parse_postfix_expr(pc, v, r) ==
    CASE pc = 0 -> Invoke("parse_primary", 1, v)
      [] pc = 1 -> Do("peek", 0, 2, With(v, "expr", r))
      [] pc = 2 -> IF IsDelim(r, "(") THEN Do("match", Delim("("), 3, v)
                   ELSE IF IsDelim(r, "[") THEN Do("match", Delim("["), 8, v)
                   ELSE IF r.type = "DOT" THEN Do("peek", 1, 11, v)
                   ELSE Return(v.expr)
      [] pc = 3 -> Do("peek", 0, 4, With(v, "args", <<>>))
      [] pc = 4 -> IF ~IsDelim(r, ")") THEN Invoke("parse_expr", 5, v)
                   ELSE Do("expect", Delim(")"), 7, v)
      [] pc = 5 -> Do("match", Sep(","), 6, [v EXCEPT !.args = Append(@, r)])
      [] pc = 6 -> IF r # None THEN Invoke("parse_expr", 5, v)
                   ELSE Do("expect", Delim(")"), 7, v)
      [] pc = 7 -> Do("peek", 0, 2,
                      [v EXCEPT !.expr = [type |-> "Call", func |-> @, args |-> v.args]])
      [] pc = 8 -> Invoke("parse_expr", 9, v)
      [] pc = 9 -> Do("expect", Delim("]"), 10, With(v, "index", r))
      [] pc = 10 -> Do("peek", 0, 2,
                       [v EXCEPT !.expr = [type |-> "Index", array |-> @,
                                           index |-> v.index]])
      [] pc = 11 -> IF r.type = "NUMBER" THEN Do("match", Types({"DOT"}), 12, v)
                    ELSE Return(v.expr)
      [] pc = 12 -> Do("expect", Types({"NUMBER"}), 13, v)
      [] pc = 13 -> Do("peek", 0, 2,
                       [v EXCEPT !.expr = [type |-> "TupleGet", tuple |-> @,
                                           index |-> int(r.value)]])

\* Parser.parse_primary: for an array the try covers the loop over the
\* elements; its except clause (place 18) raises SyntaxError again
parse_primary(pc, v, r) ==
    CASE pc = 0 -> Do("peek", 0, 1, v)
      [] pc = 1 -> IF r.type = "NUMBER" THEN Do("match", Types({"NUMBER"}), 2, With(v, "tok", r))
                   ELSE IF r.type = "ID" THEN Do("match", Types({"ID"}), 3, With(v, "tok", r))
                   ELSE IF IsDelim(r, "(") THEN Do("match", Delim("("), 4, v)
                   ELSE IF IsDelim(r, "{") THEN Invoke("parse_block", 19, v)
                   ELSE IF IsDelim(r, "[") THEN Do("match", Delim("["), 11, v)
                   ELSE Raise("SyntaxError")
      [] pc = 2 -> Return([type |-> "Number", value |-> int(v.tok.value)])
      [] pc = 3 -> Return([type |-> "Variable", name |-> v.tok.value])
      [] pc = 4 -> Do("peek", 0, 5, With(v, "exprs", <<>>))
      [] pc = 5 -> IF IsDelim(r, ")") THEN Do("match", Delim(")"), 6, v)
                   ELSE Invoke("parse_expr", 7, v)
      [] pc = 6 -> Return([type |-> "Tuple", elems |-> <<>>])
      [] pc = 7 -> Do("match", Sep(","), 8, [v EXCEPT !.exprs = Append(@, r)])
      [] pc = 8 -> IF r # None THEN Invoke("parse_expr", 7, v)
                   ELSE Do("expect", Delim(")"), 9, v)
      [] pc = 9 -> IF Len(v.exprs) = 1 THEN Return(v.exprs[1])
                   ELSE Return([type |-> "Tuple", elems |-> v.exprs])
      [] pc = 11 -> Do("peek", 0, 12, With(v, "elems", <<>>))
      [] pc = 12 -> IF IsDelim(r, "]") THEN Do("match", Delim("]"), 13, v)
                    ELSE Invoke("parse_expr", 14, With(v, "catch", 18))
      [] pc = 13 -> Return([type |-> "Array", elems |-> <<>>])
      [] pc = 14 -> Do("match", Sep(","), 15, [v EXCEPT !.elems = Append(@, r)])
      [] pc = 15 -> IF r = None THEN Do("expect", Delim("]"), 17, With(v, "catch", 0))
                    ELSE Do("peek", 0, 16, v)
      [] pc = 16 -> IF IsDelim(r, "]") THEN Do("expect", Delim("]"), 17, With(v, "catch", 0))
                    ELSE Invoke("parse_expr", 14, v)
      [] pc = 17 -> Return([type |-> "Array", elems |-> v.elems])
      [] pc = 18 -> Raise("SyntaxError")
      [] pc = 19 -> Return(r)

(***************************************************************************)
(* checker.py: the semantic checker.  Its state is the record of the       *)
(* fields of Checker; a scope and self.functions are functions on names.   *)
(* A type written in the source is the parser's record; a type name as a   *)
(* Python str is Str(name), so that a str and a dict are told apart.       *)
(***************************************************************************)
Str(name) == [str |-> name]

i32 == Str(<<"i", "3", "2">>)

\* isinstance(t, str)
IsStr(t) == "str" \in DOMAIN t

\* isinstance(t, dict)
IsDict(t) == t # None /\ ~IsStr(t)

\* an empty dict
EmptyDict == [n \in {} |-> None]

\* Symbol.__init__
Symbol(name, typ, mut, inited) ==
    [name |-> name, typ |-> typ, mut |-> mut, inited |-> inited, refs |-> <<>>]

\* Checker.__init__
Checker(ast) ==
    [ast |-> ast, scopes |-> <<EmptyDict>>, functions |-> EmptyDict, in_loop |-> 0]

\* r, and K(r) after it unless r raised
Then(r, K(_)) == IF r.out = "ok" THEN K(r) ELSE r

\* Checker.type_of
RECURSIVE type_of(_)
type_of(typ) ==
    IF typ = None THEN None
    ELSE IF IsStr(typ) THEN typ
    ELSE IF "id" \in DOMAIN typ /\ typ.id # <<>> THEN Str(typ.id)
    ELSE IF "array" \in DOMAIN typ
         THEN [array |-> type_of(typ.array), size |-> typ.size]
    ELSE IF "ref" \in DOMAIN typ THEN [ref |-> typ.ref, to |-> type_of(typ.to)]
    ELSE IF "tuple" \in DOMAIN typ
         THEN [tuple |-> [i \in DOMAIN typ.tuple |-> type_of(typ.tuple[i])]]
    ELSE typ

RECURSIVE types_equal(_, _)

\* mutant: the sizes of two arrays are not compared
types_equal_any_size(type1, type2) ==
    IF type1 = type2 THEN TRUE
    ELSE IF IsStr(type1) /\ IsDict(type2) /\ "id" \in DOMAIN type2 /\ Str(type2.id) = type1
         THEN TRUE
    ELSE IF IsStr(type2) /\ IsDict(type1) /\ "id" \in DOMAIN type1 /\ Str(type1.id) = type2
         THEN TRUE
    ELSE IF IsDict(type1) /\ IsDict(type2)
         THEN IF "array" \in DOMAIN type1 /\ "array" \in DOMAIN type2
              THEN types_equal(type1.array, type2.array)
              ELSE IF "ref" \in DOMAIN type1 /\ "ref" \in DOMAIN type2
              THEN IF type1.ref # type2.ref THEN FALSE
                   ELSE types_equal(type1.to, type2.to)
              ELSE IF "tuple" \in DOMAIN type1 /\ "tuple" \in DOMAIN type2
              THEN IF Len(type1.tuple) # Len(type2.tuple) THEN FALSE
                   ELSE \A i \in DOMAIN type1.tuple :
                           types_equal(type1.tuple[i], type2.tuple[i])
              ELSE FALSE
    ELSE FALSE

\* Checker.types_equal
types_equal(type1, type2) ==
    IF type1 = type2 THEN TRUE
    ELSE IF IsStr(type1) /\ IsDict(type2) /\ "id" \in DOMAIN type2 /\ Str(type2.id) = type1
         THEN TRUE
    ELSE IF IsStr(type2) /\ IsDict(type1) /\ "id" \in DOMAIN type1 /\ Str(type1.id) = type2
         THEN TRUE
    ELSE IF IsDict(type1) /\ IsDict(type2)
         THEN IF "array" \in DOMAIN type1 /\ "array" \in DOMAIN type2
              THEN IF type1.size # type2.size THEN FALSE
                   ELSE types_equal(type1.array, type2.array)
              ELSE IF "ref" \in DOMAIN type1 /\ "ref" \in DOMAIN type2
              THEN IF type1.ref # type2.ref THEN FALSE
                   ELSE types_equal(type1.to, type2.to)
              ELSE IF "tuple" \in DOMAIN type1 /\ "tuple" \in DOMAIN type2
              THEN IF Len(type1.tuple) # Len(type2.tuple) THEN FALSE
                   ELSE \A i \in DOMAIN type1.tuple :
                           types_equal(type1.tuple[i], type2.tuple[i])
              ELSE FALSE
    ELSE FALSE

\* Checker.define_var: the checker after it
define_var(K, name, typ, mut, inited) ==
    [K EXCEPT !.scopes[Len(K.scopes)] = With(@, name, Symbol(name, typ, mut, inited))]

\* the scope resolve_var finds name in, 0 if none
ScopeOf(K, name) ==
    IF \E i \in DOMAIN K.scopes : name \in DOMAIN K.scopes[i]
    THEN CHOOSE i \in DOMAIN K.scopes :
            /\ name \in DOMAIN K.scopes[i]
            /\ \A j \in DOMAIN K.scopes : name \in DOMAIN K.scopes[j] => j <= i
    ELSE 0

\* Checker.resolve_var
resolve_var(K, name) ==
    IF ScopeOf(K, name) = 0 THEN None ELSE K.scopes[ScopeOf(K, name)][name]

\* the checker after the symbol resolve_var finds for name was set to sym
Assigned(K, name, sym) == [K EXCEPT !.scopes[ScopeOf(K, name)][name] = sym]

\* mutant: the index just past the end is taken as in bounds
OutOfBoundsPastEnd(index_expr, array_type) ==
    /\ index_expr.type = "Number"
    /\ IsDict(array_type)
    /\ IF "array" \in DOMAIN array_type /\ "size" \in DOMAIN array_type
       THEN index_expr.value < 0 \/ index_expr.value > array_type.size
       ELSE /\ "tuple" \in DOMAIN array_type
            /\ (index_expr.value < 0 \/ index_expr.value > Len(array_type.tuple))

\* Checker.check_index_bounds raises
OutOfBounds(index_expr, array_type) ==
    /\ index_expr.type = "Number"
    /\ IsDict(array_type)
    /\ IF "array" \in DOMAIN array_type /\ "size" \in DOMAIN array_type
       THEN index_expr.value < 0 \/ index_expr.value >= array_type.size
       ELSE /\ "tuple" \in DOMAIN array_type
            /\ (index_expr.value < 0 \/ index_expr.value >= Len(array_type.tuple))

\* the message of check_index_bounds: the words for an array or a tuple, the
\* index and the range
IndexMessage(index_expr, array_type) ==
    IF "array" \in DOMAIN array_type
    THEN [of |-> "array", index |-> index_expr.value, range |-> <<0, array_type.size - 1>>]
    ELSE [of |-> "tuple", index |-> index_expr.value,
          range |-> <<0, Len(array_type.tuple) - 1>>]

\* Checker.check_index_bounds: the value of a SyntaxError is its message
check_index_bounds(K, index_expr, array_type) ==
    IF OutOfBounds(index_expr, array_type)
    THEN [Fail(K, "SyntaxError") EXCEPT !.val = IndexMessage(index_expr, array_type)]
    ELSE Ok(K, None)

\* Checker.register_function: the checker after it
register_function(K, func) ==
    [K EXCEPT !.functions =
        With(@, func.name,
             << [i \in DOMAIN func.params |->
                    <<func.params[i].name, type_of(func.params[i].type)>>],
                IF func.ret_type # None THEN type_of(func.ret_type) ELSE None >>)]

RECURSIVE check_expr(_, _)
RECURSIVE check_elems(_, _, _, _)
RECURSIVE check_args(_, _, _, _)

\* check_expr, Variable: var is what resolve_var gave
check_variable(K, var) ==
    IF var = None THEN Fail(K, "SyntaxError")
    ELSE IF var.typ = None THEN Fail(K, "SyntaxError")
    ELSE IF ~var.inited THEN Fail(K, "SyntaxError")
    ELSE Ok(K, var.typ)

\* mutant: an immutable reference is taken whatever references there are
check_addr_after_mut(K, name, var, kind) ==
    IF var = None THEN Fail(K, "SyntaxError")
    ELSE IF kind = "mut" /\ ~var.mut THEN Fail(K, "SyntaxError")
    ELSE IF kind = "mut" /\ var.refs # <<>> THEN Fail(K, "SyntaxError")
    ELSE Then(check_variable(Assigned(K, name, [var EXCEPT !.refs = Append(@, kind)]),
                             [var EXCEPT !.refs = Append(@, kind)]),
              LAMBDA t : Ok(t.self, [ref |-> kind, to |-> t.val]))

\* check_expr, AddrOf and AddrOfMut: the reference kind is appended to the
\* refs of the symbol, then the variable is checked
check_addr(K, name, var, kind) ==
    IF var = None THEN Fail(K, "SyntaxError")
    ELSE IF kind = "mut" /\ ~var.mut THEN Fail(K, "SyntaxError")
    ELSE IF kind = "mut" /\ var.refs # <<>> THEN Fail(K, "SyntaxError")
    ELSE IF kind = "imm" /\ \E i \in DOMAIN var.refs : var.refs[i] = "mut"
         THEN Fail(K, "SyntaxError")
    ELSE Then(check_variable(Assigned(K, name, [var EXCEPT !.refs = Append(@, kind)]),
                             [var EXCEPT !.refs = Append(@, kind)]),
              LAMBDA t : Ok(t.self, [ref |-> kind, to |-> t.val]))

\* check_expr, Index, after the array and the index were checked
check_index(K, index_expr, arr_type, idx_type) ==
    IF ~types_equal(idx_type, i32) THEN Fail(K, "SyntaxError")
    ELSE IF check_index_bounds(K, index_expr, arr_type).out # "ok"
         THEN check_index_bounds(K, index_expr, arr_type)
    ELSE IF IsDict(arr_type) /\ "array" \in DOMAIN arr_type /\ arr_type.array # None
         THEN Ok(K, arr_type.array)
    ELSE IF /\ IsDict(arr_type) /\ "tuple" \in DOMAIN arr_type /\ arr_type.tuple # <<>>
            /\ index_expr.type = "Number"
         THEN IF index_expr.value >= Len(arr_type.tuple) THEN Fail(K, "SyntaxError")
              ELSE Ok(K, arr_type.tuple[index_expr.value + 1])
    ELSE Fail(K, "SyntaxError")

\* Checker.check_expr; expr['type'] of a node without that key (the range
\* of a for statement) raises KeyError
check_expr(K, expr) ==
    IF "type" \notin DOMAIN expr THEN Fail(K, "KeyError")
    ELSE CASE expr.type = "Number" -> Ok(K, i32)
      [] expr.type = "Variable" -> check_variable(K, resolve_var(K, expr.name))
      [] expr.type = "BinaryOp" ->
            Then(check_expr(K, expr.left), LAMBDA lt :
            Then(check_expr(lt.self, expr.right), LAMBDA rt :
                IF ~types_equal(lt.val, rt.val) THEN Fail(rt.self, "SyntaxError")
                ELSE Ok(rt.self, lt.val)))
      [] expr.type = "UnaryOp" ->
            Then(check_expr(K, expr.expr), LAMBDA t :
                IF expr.op = <<"-">> /\ ~types_equal(t.val, i32)
                THEN Fail(t.self, "SyntaxError") ELSE t)
      [] expr.type = "AddrOf" ->
            IF expr.expr.type # "Variable" THEN Fail(K, "SyntaxError")
            ELSE check_addr(K, expr.expr.name, resolve_var(K, expr.expr.name), "imm")
      [] expr.type = "AddrOfMut" ->
            IF expr.expr.type # "Variable" THEN Fail(K, "SyntaxError")
            ELSE check_addr(K, expr.expr.name, resolve_var(K, expr.expr.name), "mut")
      [] expr.type = "Deref" ->
            Then(check_expr(K, expr.expr), LAMBDA t :
                IF ~(IsDict(t.val) /\ "ref" \in DOMAIN t.val /\ "to" \in DOMAIN t.val)
                THEN Fail(t.self, "SyntaxError") ELSE Ok(t.self, t.val.to))
      [] expr.type = "Call" ->
            IF expr.func.type # "Variable" THEN Fail(K, "SyntaxError")
            ELSE IF expr.func.name \notin DOMAIN K.functions THEN Fail(K, "SyntaxError")
            ELSE IF Len(expr.args) # Len(K.functions[expr.func.name][1])
                 THEN Fail(K, "SyntaxError")
            ELSE Then(check_args(K, expr.args, K.functions[expr.func.name][1], 1),
                      LAMBDA t : Ok(t.self, K.functions[expr.func.name][2]))
      [] expr.type = "Index" ->
            Then(check_expr(K, expr.array), LAMBDA at :
            Then(check_expr(at.self, expr.index), LAMBDA it :
                check_index(it.self, expr.index, at.val, it.val)))
      [] expr.type = "TupleGet" ->
            Then(check_expr(K, expr.tuple), LAMBDA t :
                IF ~(IsDict(t.val) /\ "tuple" \in DOMAIN t.val)
                THEN Fail(t.self, "SyntaxError")
                ELSE IF expr.index < 0 \/ expr.index >= Len(t.val.tuple)
                THEN Fail(t.self, "SyntaxError")
                ELSE Ok(t.self, t.val.tuple[expr.index + 1]))
      [] expr.type = "Array" ->
            Then(check_elems(K, expr.elems, 1, <<>>), LAMBDA t :
                IF t.val = <<>> THEN Fail(t.self, "SyntaxError")
                ELSE IF \E i \in DOMAIN t.val : ~types_equal(t.val[i], t.val[1])
                THEN Fail(t.self, "SyntaxError")
                ELSE Ok(t.self, [array |-> t.val[1], size |-> Len(expr.elems)]))
      [] expr.type = "Tuple" ->
            Then(check_elems(K, expr.elems, 1, <<>>), LAMBDA t :
                Ok(t.self, [tuple |-> t.val]))
      [] OTHER -> Ok(K, i32)

\* [self.check_expr(e) for e in elems], from the i-th on
check_elems(K, elems, i, types) ==
    IF i > Len(elems) THEN Ok(K, types)
    ELSE Then(check_expr(K, elems[i]), LAMBDA t :
              check_elems(t.self, elems, i + 1, Append(types, t.val)))

\* check_expr, Call: the loop over zip(args, params), from the i-th on
check_args(K, args, params, i) ==
    IF i > Len(args) THEN Ok(K, None)
    ELSE Then(check_expr(K, args[i]), LAMBDA t :
              IF ~types_equal(t.val, params[i][2]) THEN Fail(t.self, "SyntaxError")
              ELSE check_args(t.self, args, params, i + 1))

\* check_let with the declared type
check_let_as(K, stmt, declared_type) ==
    IF stmt.val # None
    THEN Then(check_expr(K, stmt.val), LAMBDA t :
            IF declared_type # None /\ ~types_equal(t.val, declared_type)
            THEN Fail(t.self, "SyntaxError")
            ELSE Ok(define_var(t.self, stmt.name,
                               IF declared_type # None THEN declared_type ELSE t.val,
                               stmt.mut, TRUE), None))
    ELSE Ok(define_var(K, stmt.name, declared_type, stmt.mut, FALSE), None)

\* Checker.check_let
check_let(K, stmt) ==
    check_let_as(K, stmt, IF stmt.ty # None THEN type_of(stmt.ty) ELSE None)

\* check_assign, target a.0
assign_tuple_member(K, stmt, target, var) ==
    IF var = None THEN Fail(K, "SyntaxError")
    ELSE IF ~var.mut THEN Fail(K, "SyntaxError")
    ELSE IF ~(IsDict(var.typ) /\ "tuple" \in DOMAIN var.typ) THEN Fail(K, "SyntaxError")
    ELSE IF target.index < 0 \/ target.index >= Len(var.typ.tuple)
         THEN Fail(K, "SyntaxError")
    ELSE Then(check_expr(K, stmt.val), LAMBDA t :
            IF ~types_equal(t.val, var.typ.tuple[target.index + 1])
            THEN Fail(t.self, "SyntaxError") ELSE Ok(t.self, None))

\* check_assign, target a variable: the symbol is the one resolved before
\* the value was checked
assign_variable(K, stmt, name, var) ==
    IF var = None THEN Fail(K, "SyntaxError")
    ELSE IF ~var.mut /\ var.inited THEN Fail(K, "SyntaxError")
    ELSE Then(check_expr(K, stmt.val), LAMBDA t :
            IF var.typ = None
            THEN Ok(Assigned(t.self, name, [resolve_var(t.self, name) EXCEPT
                                               !.typ = t.val, !.inited = TRUE]), None)
            ELSE IF ~types_equal(t.val, var.typ) THEN Fail(t.self, "SyntaxError")
            ELSE Ok(Assigned(t.self, name, [resolve_var(t.self, name) EXCEPT
                                               !.inited = TRUE]), None))

\* check_assign, target a[i]
assign_element(K, stmt, target, var) ==
    IF var = None THEN Fail(K, "SyntaxError")
    ELSE IF ~var.mut THEN Fail(K, "SyntaxError")
    ELSE Then(check_expr(K, target.index), LAMBDA it :
            IF ~types_equal(it.val, i32) THEN Fail(it.self, "SyntaxError")
            ELSE IF ~IsDict(var.typ) \/ "array" \notin DOMAIN var.typ
            THEN Fail(it.self, "SyntaxError")
            ELSE IF check_index_bounds(it.self, target.index, var.typ).out # "ok"
            THEN check_index_bounds(it.self, target.index, var.typ)
            ELSE Then(check_expr(it.self, stmt.val), LAMBDA t :
                    IF ~types_equal(t.val, var.typ.array)
                    THEN Fail(t.self, "SyntaxError") ELSE Ok(t.self, None)))

\* Checker.check_assign
check_assign(K, stmt) ==
    IF stmt.target.type = "TupleGet"
    THEN IF stmt.target.tuple.type # "Variable" THEN Fail(K, "SyntaxError")
         ELSE assign_tuple_member(K, stmt, stmt.target,
                                  resolve_var(K, stmt.target.tuple.name))
    ELSE IF stmt.target.type = "Variable"
    THEN assign_variable(K, stmt, stmt.target.name, resolve_var(K, stmt.target.name))
    ELSE IF stmt.target.type = "Index"
    THEN IF stmt.target.array.type # "Variable" THEN Fail(K, "SyntaxError")
         ELSE assign_element(K, stmt, stmt.target,
                             resolve_var(K, stmt.target.array.name))
    ELSE Fail(K, "SyntaxError")

\* check_return with the declared return type
check_return_as(K, expr, expect_type) ==
    IF expect_type # None
    THEN IF expr = None THEN Fail(K, "SyntaxError")
         ELSE Then(check_expr(K, expr), LAMBDA t :
                IF ~types_equal(t.val, expect_type) THEN Fail(t.self, "SyntaxError")
                ELSE Ok(t.self, None))
    ELSE IF expr # None
         THEN Then(check_expr(K, expr), LAMBDA t : Fail(t.self, "SyntaxError"))
         ELSE Ok(K, None)

\* Checker.check_return
check_return(K, stmt, ret_type, func_name) ==
    check_return_as(K, stmt.expr, IF ret_type # None THEN type_of(ret_type) ELSE None)

\* self changes to K2 and then e is done
Sets(K2, e) == With(e, "self", K2)

\* self.scopes.append({})
Pushed(K) == [K EXCEPT !.scopes = Append(@, EmptyDict)]

\* mutant: the scope stays
ScopeKept(K) == K

\* self.scopes.pop()
Popped(K) == [K EXCEPT !.scopes = SubSeq(@, 1, Len(@) - 1)]

\* Checker.check: the loops over the declarations are places 1 and 2
check(pc, v, r, K) ==
    CASE pc = 0 -> IF K.ast = None \/ K.ast.type # "Program" THEN Return(None)
                   ELSE Goto(1, With(v, "i", 1))
      [] pc = 1 -> IF v.i > Len(K.ast.decls) THEN Goto(2, With(v, "i", 1))
                   ELSE IF K.ast.decls[v.i].type = "Function"
                   THEN Do("register_function", K.ast.decls[v.i], 1, With(v, "i", v.i + 1))
                   ELSE Goto(1, With(v, "i", v.i + 1))
      [] pc = 2 -> IF v.i > Len(K.ast.decls) THEN Return(None)
                   ELSE IF K.ast.decls[v.i].type = "Function"
                   THEN InvokeWith("check_function", K.ast.decls[v.i], 2,
                                   With(v, "i", v.i + 1))
                   ELSE Goto(2, With(v, "i", v.i + 1))

\* Checker.check_function(func): the loop over the parameters is place 1
check_function(pc, v, r, K) ==
    CASE pc = 0 -> Sets(Pushed(K), Goto(1, With(v, "i", 1)))
      [] pc = 1 -> IF v.i > Len(v.a.params)
                   THEN InvokeWith("check_block", <<v.a.body, v.a.ret_type, v.a.name>>, 2, v)
                   ELSE IF type_of(v.a.params[v.i].type) = None THEN Raise("SyntaxError")
                   ELSE Sets(define_var(K, v.a.params[v.i].name,
                                        type_of(v.a.params[v.i].type),
                                        v.a.params[v.i].mut, TRUE),
                             Goto(1, With(v, "i", v.i + 1)))
      [] pc = 2 -> Sets(Popped(K), Return(None))

\* Checker.check_block(block, ret_type, func_name): the loop over the
\* statements is place 1; block['stmts'] of a node that is no block (a
\* function body that is an expression) raises KeyError
check_block(pc, v, r, K) ==
    CASE pc = 0 -> Sets(Pushed(K), IF "stmts" \notin DOMAIN v.a[1] THEN Raise("KeyError")
                                   ELSE Goto(1, With(v, "i", 1)))
      [] pc = 1 -> IF v.i <= Len(v.a[1].stmts)
                   THEN InvokeWith("check_stmt", <<v.a[1].stmts[v.i], v.a[2], v.a[3]>>, 1,
                                   With(v, "i", v.i + 1))
                   ELSE IF \E name \in DOMAIN Last(K.scopes) :
                              Last(K.scopes)[name].typ = None
                   THEN Raise("SyntaxError")
                   ELSE Sets(Popped(K), Return(None))

\* Checker.check_stmt(stmt, ret_type, func_name)
check_stmt(pc, v, r, K) ==
    CASE pc = 0 ->
            CASE v.a[1].type = "Let" -> Do("check_let", v.a[1], 3, v)
              [] v.a[1].type = "Assign" -> Do("check_assign", v.a[1], 3, v)
              [] v.a[1].type = "Return" -> Do("check_return", v.a, 3, v)
              [] v.a[1].type \in {"Break", "Continue"} ->
                    IF K.in_loop <= 0 THEN Raise("SyntaxError") ELSE Return(None)
              [] v.a[1].type = "While" ->
                    Sets([K EXCEPT !.in_loop = @ + 1], Do("check_expr", v.a[1].cond, 1, v))
              [] v.a[1].type = "Loop" ->
                    Sets([K EXCEPT !.in_loop = @ + 1],
                         InvokeWith("check_block_or_expr", <<v.a[1].body, v.a[2], v.a[3]>>,
                                    2, v))
              [] v.a[1].type = "For" ->
                    Sets([K EXCEPT !.in_loop = @ + 1], InvokeWith("check_for", v.a, 2, v))
              [] v.a[1].type = "ExprStmt" -> Do("check_expr", v.a[1].expr, 3, v)
              [] v.a[1].type = "If" -> InvokeWith("check_if", v.a, 3, v)
              [] v.a[1].type = "Block" -> InvokeWith("check_block", v.a, 3, v)
              [] OTHER -> Return(None)
      [] pc = 1 -> InvokeWith("check_block_or_expr", <<v.a[1].body, v.a[2], v.a[3]>>, 2, v)
      [] pc = 2 -> Sets([K EXCEPT !.in_loop = @ - 1], Return(None))
      [] pc = 3 -> Return(None)

\* Checker.check_for(stmt, ret_type, func_name)
check_for(pc, v, r, K) ==
    CASE pc = 0 -> Sets(define_var(Pushed(K), v.a[1].iter.name, i32, v.a[1].iter.mut, TRUE),
                        Do("check_expr", v.a[1].iter.iter, 1, v))
      [] pc = 1 -> InvokeWith("check_block_or_expr", <<v.a[1].body, v.a[2], v.a[3]>>, 2, v)
      [] pc = 2 -> Sets(Popped(K), Return(None))

\* Checker.check_if(stmt, ret_type, func_name)
check_if(pc, v, r, K) ==
    CASE pc = 0 -> Do("check_expr", v.a[1].cond, 1, v)
      [] pc = 1 -> InvokeWith("check_block_or_expr", <<v.a[1].then, v.a[2], v.a[3]>>, 2, v)
      [] pc = 2 -> IF v.a[1].else # None
                   THEN InvokeWith("check_block_or_expr", <<v.a[1].else, v.a[2], v.a[3]>>,
                                   3, v)
                   ELSE Return(None)
      [] pc = 3 -> Return(None)

\* Checker.check_block_or_expr(node, ret_type, func_name)
check_block_or_expr(pc, v, r, K) ==
    CASE pc = 0 -> IF "type" \in DOMAIN v.a[1] /\ v.a[1].type = "Block"
                   THEN InvokeWith("check_block", v.a, 1, v)
                   ELSE Do("check_expr", v.a[1], 1, v)
      [] pc = 1 -> Return(None)

(***************************************************************************)
(* irgen.py: the generator of the quadruples.  Its state is the record of  *)
(* the fields of IRGen; the two itertools.count objects are the numbers    *)
(* they give next.  A Python str is the sequence of its characters, as the *)
(* names in the tree are.                                                  *)
(***************************************************************************)
FUNC == <<"F","U","N","C">>
PARAM == <<"P","A","R","A","M">>
RET == <<"R","E","T">>
ENDFUNC == <<"E","N","D","F","U","N","C">>
LETOP == <<"L","E","T">>
ASTORE == <<"A","S","T","O","R","E">>
TSTORE == <<"T","S","T","O","R","E">>
PSTORE == <<"P","S","T","O","R","E">>
IFZ == <<"I","F","Z">>
IFNZ == <<"I","F","N","Z">>
GOTO == <<"G","O","T","O">>
LABEL == <<"L","A","B","E","L">>
LOAD == <<"L","O","A","D">>
ADDR == <<"A","D","D","R">>
ARG == <<"A","R","G">>
CALL == <<"C","A","L","L">>
ALOAD == <<"A","L","O","A","D">>
TLOAD == <<"T","L","O","A","D">>
TUPLE == <<"T","U","P","L","E">>
ARRAY == <<"A","R","R","A","Y">>
BreakResult == <<"b","r","e","a","k","_","r","e","s","u","l","t","_">>

\* str(n) of an int that is not negative
RECURSIVE str(_)
str(n) ==
    IF n < 10 THEN <<DigitChars[n + 1]>>
    ELSE str(n \div 10) \o <<DigitChars[(n % 10) + 1]>>

\* ','.join(elems)
RECURSIVE join(_)
join(elems) ==
    IF elems = <<>> THEN <<>>
    ELSE IF Len(elems) = 1 THEN elems[1]
    ELSE elems[1] \o <<",">> \o join(Tail(elems))

\* IRGen.__init__
IRGen ==
    [temp_count |-> 0, label_count |-> 0, quadruples |-> <<>>, loop_stack |-> <<>>,
     current_function |-> None]

\* IRGen.new_temp: the generator after it and the name
new_temp(G) ==
    [self |-> [G EXCEPT !.temp_count = @ + 1], val |-> <<"t">> \o str(G.temp_count)]

\* mutant: the counter of the labels stays
new_label_same(G) == [self |-> G, val |-> <<"L">> \o str(G.label_count)]

\* IRGen.new_label: the generator after it and the name
new_label(G) ==
    [self |-> [G EXCEPT !.label_count = @ + 1], val |-> <<"L">> \o str(G.label_count)]

\* n calls of new_label, one after the other: the generator after them and
\* the names in order
RECURSIVE new_labels(_, _)
new_labels(G, n) ==
    IF n = 0 THEN [self |-> G, val |-> <<>>]
    ELSE [self |-> new_label(new_labels(G, n - 1).self).self,
          val |-> Append(new_labels(G, n - 1).val,
                         new_label(new_labels(G, n - 1).self).val)]

\* IRGen.emit
emit(G, op, arg1, arg2, res) ==
    [G EXCEPT !.quadruples = Append(@, [op |-> op, arg1 |-> arg1, arg2 |-> arg2,
                                        res |-> res])]

\* self.loop_stack.append((start_label, end_label))
LoopPushed(G, start_label, end_label) ==
    [G EXCEPT !.loop_stack = Append(@, <<start_label, end_label>>)]

\* self.loop_stack.pop()
LoopPopped(G) == [G EXCEPT !.loop_stack = SubSeq(@, 1, Len(@) - 1)]

\* the labels that remove_unused_labels finds used, in the quadruples
UsedLabels(quads) ==
    {quads[i].arg1 : i \in {j \in DOMAIN quads :
                                /\ quads[j].op \in {GOTO, IFZ, IFNZ}
                                /\ quads[j].arg1 # <<>>}}
    \cup {quads[i].res : i \in {j \in DOMAIN quads :
                                /\ quads[j].op \in {IFZ, IFNZ}
                                /\ quads[j].arg1 = <<>>
                                /\ quads[j].res # <<>>}}

\* the quadruples without those a predicate on them drops
RECURSIVE Without(_, _)
Without(quads, unused) ==
    IF quads = <<>> THEN <<>>
    ELSE IF quads[1].op = LABEL /\ quads[1].arg1 \in unused THEN Without(Tail(quads), unused)
    ELSE <<quads[1]>> \o Without(Tail(quads), unused)

\* IRGen.remove_unused_labels
remove_unused_labels(G) ==
    [G EXCEPT !.quadruples =
        Without(@, {@[i].arg1 : i \in {j \in DOMAIN @ : @[j].op = LABEL}}
                   \ UsedLabels(@))]

\* IRGen.optimize_ir: remove_dead_code, constant_folding and
\* copy_propagation do nothing
optimize_ir(G) == remove_unused_labels(G)

\* the PARAM quadruples of gen_function, from parameter i on
RECURSIVE EmitParams(_, _, _)
EmitParams(G, params, i) ==
    IF i > Len(params) THEN G
    ELSE EmitParams(emit(G, PARAM, params[i].name, <<"i", "3", "2">>, str(i - 1)),
                    params, i + 1)

\* IRGen.gen(ast): the loop over the declarations is place 1
gen(pc, v, r, G) ==
    CASE pc = 0 -> IF v.a = None \/ "type" \notin DOMAIN v.a \/ v.a.type # "Program"
                   THEN Return(<<>>)
                   ELSE Sets([G EXCEPT !.quadruples = <<>>], Goto(1, With(v, "i", 1)))
      [] pc = 1 -> IF v.i <= Len(v.a.decls)
                   THEN InvokeWith("gen_function", v.a.decls[v.i], 1, With(v, "i", v.i + 1))
                   ELSE Sets(optimize_ir(G), Return(optimize_ir(G).quadruples))

\* IRGen.gen_function(func)
gen_function(pc, v, r, G) ==
    CASE pc = 0 -> Sets(EmitParams(emit([G EXCEPT !.current_function = v.a.name],
                                        FUNC, v.a.name, <<>>, <<>>),
                                   v.a.params, 1),
                        InvokeWith("gen_block", v.a.body, 1, v))
      [] pc = 1 -> Sets([emit(IF G.quadruples = <<>> \/ Last(G.quadruples).op # RET
                              THEN emit(G, RET, <<>>, <<>>, <<>>) ELSE G,
                              ENDFUNC, v.a.name, <<>>, <<>>)
                           EXCEPT !.current_function = None],
                        Return(None))

\* IRGen.gen_block(block): the loop over the statements is place 1
gen_block(pc, v, r, G) ==
    CASE pc = 0 -> Goto(1, With(v, "i", 1))
      [] pc = 1 -> IF "stmts" \in DOMAIN v.a /\ v.i <= Len(v.a.stmts)
                   THEN InvokeWith("gen_stmt", v.a.stmts[v.i], 1, With(v, "i", v.i + 1))
                   ELSE Return(None)

\* IRGen.gen_stmt(stmt)
gen_stmt(pc, v, r, G) ==
    CASE pc = 0 ->
            CASE v.a.type = "Let" -> InvokeWith("gen_let", v.a, 1, v)
              [] v.a.type = "Assign" -> InvokeWith("gen_assign", v.a, 1, v)
              [] v.a.type = "Return" -> InvokeWith("gen_return", v.a, 1, v)
              [] v.a.type = "If" -> InvokeWith("gen_if_stmt", v.a, 1, v)
              [] v.a.type = "While" -> InvokeWith("gen_while_stmt", v.a, 1, v)
              [] v.a.type = "For" -> InvokeWith("gen_for_stmt", v.a, 1, v)
              [] v.a.type = "Loop" -> InvokeWith("gen_loop_stmt", v.a, 1, v)
              [] v.a.type = "Break" -> InvokeWith("gen_break_stmt", v.a, 1, v)
              [] v.a.type = "Continue" -> InvokeWith("gen_continue_stmt", v.a, 1, v)
              [] v.a.type = "ExprStmt" -> InvokeWith("gen_expr", v.a.expr, 1, v)
              [] v.a.type = "Block" -> InvokeWith("gen_block", v.a, 1, v)
              [] OTHER -> Return(None)
      [] pc = 1 -> Return(None)

\* IRGen.gen_let(stmt)
gen_let(pc, v, r, G) ==
    CASE pc = 0 -> IF v.a.val # None THEN InvokeWith("gen_expr", v.a.val, 1, v)
                   ELSE Sets(emit(G, LETOP, v.a.name, <<>>, <<>>), Return(None))
      [] pc = 1 -> Sets(emit(G, LETOP, v.a.name, r, <<>>), Return(None))

\* IRGen.gen_assign(stmt)
gen_assign(pc, v, r, G) ==
    CASE pc = 0 -> InvokeWith("gen_expr", v.a.val, 1, v)
      [] pc = 1 ->
            CASE v.a.target.type = "Variable" ->
                    Sets(emit(G, <<"=">>, v.a.target.name, r, <<>>), Return(None))
              [] v.a.target.type = "Index" ->
                    InvokeWith("gen_expr", v.a.target.array, 2, With(v, "value", r))
              [] v.a.target.type = "TupleGet" ->
                    InvokeWith("gen_expr", v.a.target.tuple, 4, With(v, "value", r))
              [] v.a.target.type = "Deref" ->
                    InvokeWith("gen_expr", v.a.target.expr, 5, With(v, "value", r))
              [] OTHER -> Return(None)
      [] pc = 2 -> InvokeWith("gen_expr", v.a.target.index, 3, With(v, "array", r))
      [] pc = 3 -> Sets(emit(G, ASTORE, v.array, r, v.value), Return(None))
      [] pc = 4 -> Sets(emit(G, TSTORE, r, str(v.a.target.index), v.value), Return(None))
      [] pc = 5 -> Sets(emit(G, PSTORE, r, v.value, <<>>), Return(None))

\* IRGen.gen_return(stmt)
gen_return(pc, v, r, G) ==
    CASE pc = 0 -> IF v.a.expr # None THEN InvokeWith("gen_expr", v.a.expr, 1, v)
                   ELSE Sets(emit(G, RET, <<>>, <<>>, <<>>), Return(None))
      [] pc = 1 -> Sets(emit(G, RET, r, <<>>, <<>>), Return(None))

\* mutant: an if without else ends with LABEL Lend
gen_if_stmt_end_label(pc, v, r, G) ==
    CASE pc = 0 -> InvokeWith("gen_expr", v.a.cond, 1, v)
      [] pc = 1 ->
            LET L == new_labels(G, 2)
            IN  Sets(emit(L.self, IFZ, r, <<>>, L.val[1]),
                     InvokeWith("gen_block_or_expr", v.a.then, 2,
                                With(With(v, "label_else", L.val[1]),
                                     "label_end", L.val[2])))
      [] pc = 2 ->
            IF v.a.else # None
            THEN Sets(emit(emit(G, GOTO, v.label_end, <<>>, <<>>),
                           LABEL, v.label_else, <<>>, <<>>),
                      InvokeWith("gen_block_or_expr", v.a.else, 3, v))
            ELSE Sets(emit(G, LABEL, v.label_end, <<>>, <<>>), Return(None))
      [] pc = 3 -> Sets(emit(G, LABEL, v.label_end, <<>>, <<>>), Return(None))

\* IRGen.gen_if_stmt(stmt): at place 1 the condition was lowered
gen_if_stmt(pc, v, r, G) ==
    CASE pc = 0 -> InvokeWith("gen_expr", v.a.cond, 1, v)
      [] pc = 1 ->
            LET L == new_labels(G, 2)
            IN  Sets(emit(L.self, IFZ, r, <<>>, L.val[1]),
                     InvokeWith("gen_block_or_expr", v.a.then, 2,
                                With(With(v, "label_else", L.val[1]),
                                     "label_end", L.val[2])))
      [] pc = 2 ->
            IF v.a.else # None
            THEN Sets(emit(emit(G, GOTO, v.label_end, <<>>, <<>>),
                           LABEL, v.label_else, <<>>, <<>>),
                      InvokeWith("gen_block_or_expr", v.a.else, 3, v))
            ELSE Sets(emit(G, LABEL, v.label_else, <<>>, <<>>), Return(None))
      [] pc = 3 -> Sets(emit(G, LABEL, v.label_end, <<>>, <<>>), Return(None))

\* IRGen.gen_while_stmt(stmt): at place 1 the body was lowered, at place 2
\* the condition
gen_while_stmt(pc, v, r, G) ==
    CASE pc = 0 ->
            LET L == new_labels(G, 3)
            IN  Sets(emit(emit(LoopPushed(L.self, L.val[2], L.val[3]),
                               GOTO, L.val[2], <<>>, <<>>),
                          LABEL, L.val[1], <<>>, <<>>),
                     InvokeWith("gen_block_or_expr", v.a.body, 1,
                                With(With(With(v, "label_start", L.val[1]),
                                          "label_cond", L.val[2]),
                                     "label_end", L.val[3])))
      [] pc = 1 -> Sets(emit(G, LABEL, v.label_cond, <<>>, <<>>),
                        InvokeWith("gen_expr", v.a.cond, 2, v))
      [] pc = 2 -> Sets(LoopPopped(emit(emit(G, IFNZ, r, <<>>, v.label_start),
                                        LABEL, v.label_end, <<>>, <<>>)),
                        Return(None))

\* mutant: the loop variable is incremented after LABEL Lcond
gen_for_stmt_late_increment(pc, v, r, G) ==
    CASE pc = 0 -> IF "range" \in DOMAIN v.a.iter.iter
                   THEN InvokeWith("gen_expr", v.a.iter.iter.range[1], 1, v)
                   ELSE Return(None)
      [] pc = 1 -> InvokeWith("gen_expr", v.a.iter.iter.range[2], 2, With(v, "start", r))
      [] pc = 2 ->
            LET L == new_labels(G, 3)
            IN  Sets(emit(emit(LoopPushed(emit(L.self, <<"=">>, v.a.iter.name, v.start,
                                               <<>>),
                                          L.val[1], L.val[3]),
                               GOTO, L.val[1], <<>>, <<>>),
                          LABEL, L.val[2], <<>>, <<>>),
                     InvokeWith("gen_block_or_expr", v.a.body, 3,
                                With(With(With(With(v, "end", r), "label_cond", L.val[1]),
                                          "label_body", L.val[2]),
                                     "label_end", L.val[3])))
      [] pc = 3 ->
            LET T == new_temp(emit(emit(G, LABEL, v.label_cond, <<>>, <<>>),
                                   <<"+">>, v.a.iter.name, <<"1">>, v.a.iter.name))
            IN  Sets(LoopPopped(emit(emit(emit(T.self, <<"<">>, v.a.iter.name, v.end, T.val),
                                          IFNZ, T.val, <<>>, v.label_body),
                                     LABEL, v.label_end, <<>>, <<>>)),
                     Return(None))

\* IRGen.gen_for_stmt(stmt): at place 1 the first endpoint of the range was
\* lowered, at place 2 the second, at place 3 the body
gen_for_stmt(pc, v, r, G) ==
    CASE pc = 0 -> IF "range" \in DOMAIN v.a.iter.iter
                   THEN InvokeWith("gen_expr", v.a.iter.iter.range[1], 1, v)
                   ELSE Return(None)
      [] pc = 1 -> InvokeWith("gen_expr", v.a.iter.iter.range[2], 2, With(v, "start", r))
      [] pc = 2 ->
            LET L == new_labels(G, 3)
            IN  Sets(emit(emit(LoopPushed(emit(L.self, <<"=">>, v.a.iter.name, v.start,
                                               <<>>),
                                          L.val[1], L.val[3]),
                               GOTO, L.val[1], <<>>, <<>>),
                          LABEL, L.val[2], <<>>, <<>>),
                     InvokeWith("gen_block_or_expr", v.a.body, 3,
                                With(With(With(With(v, "end", r), "label_cond", L.val[1]),
                                          "label_body", L.val[2]),
                                     "label_end", L.val[3])))
      [] pc = 3 ->
            LET T == new_temp(emit(emit(G, <<"+">>, v.a.iter.name, <<"1">>, v.a.iter.name),
                                   LABEL, v.label_cond, <<>>, <<>>))
            IN  Sets(LoopPopped(emit(emit(emit(T.self, <<"<">>, v.a.iter.name, v.end, T.val),
                                          IFNZ, T.val, <<>>, v.label_body),
                                     LABEL, v.label_end, <<>>, <<>>)),
                     Return(None))

\* IRGen.gen_loop_stmt(stmt): at place 1 the body was lowered
gen_loop_stmt(pc, v, r, G) ==
    CASE pc = 0 ->
            LET L == new_labels(G, 2)
            IN  Sets(emit(LoopPushed(L.self, L.val[1], L.val[2]),
                          LABEL, L.val[1], <<>>, <<>>),
                     InvokeWith("gen_block_or_expr", v.a.body, 1,
                                With(With(v, "label_start", L.val[1]),
                                     "label_end", L.val[2])))
      [] pc = 1 -> Sets(LoopPopped(emit(emit(G, GOTO, v.label_start, <<>>, <<>>),
                                        LABEL, v.label_end, <<>>, <<>>)),
                        Return(None))

\* mutant: the jump of a break is emitted before the write of its value
gen_break_stmt_jump_first(pc, v, r, G) ==
    CASE pc = 0 -> IF G.loop_stack = <<>> THEN Raise("ValueError")
                   ELSE IF v.a.expr # None
                   THEN InvokeWith("gen_expr", v.a.expr, 1,
                                   With(v, "end_label", Last(G.loop_stack)[2]))
                   ELSE Sets(emit(G, GOTO, Last(G.loop_stack)[2], <<>>, <<>>), Return(None))
      [] pc = 1 -> Sets(emit(emit(G, GOTO, v.end_label, <<>>, <<>>),
                             <<"=">>, BreakResult \o G.current_function, r, <<>>),
                        Return(None))

\* IRGen.gen_break_stmt(stmt): at place 1 the value was lowered
gen_break_stmt(pc, v, r, G) ==
    CASE pc = 0 -> IF G.loop_stack = <<>> THEN Raise("ValueError")
                   ELSE IF v.a.expr # None
                   THEN InvokeWith("gen_expr", v.a.expr, 1,
                                   With(v, "end_label", Last(G.loop_stack)[2]))
                   ELSE Sets(emit(G, GOTO, Last(G.loop_stack)[2], <<>>, <<>>), Return(None))
      [] pc = 1 -> Sets(emit(emit(G, <<"=">>, BreakResult \o G.current_function, r, <<>>),
                             GOTO, v.end_label, <<>>, <<>>),
                        Return(None))

\* IRGen.gen_continue_stmt(stmt)
gen_continue_stmt(pc, v, r, G) ==
    CASE pc = 0 -> IF G.loop_stack = <<>> THEN Raise("ValueError")
                   ELSE Sets(emit(G, GOTO, Last(G.loop_stack)[1], <<>>, <<>>), Return(None))

\* IRGen.gen_block_or_expr(node)
gen_block_or_expr(pc, v, r, G) ==
    CASE pc = 0 -> IF v.a # None /\ "type" \in DOMAIN v.a /\ v.a.type = "Block"
                   THEN InvokeWith("gen_block", v.a, 1, v)
                   ELSE InvokeWith("gen_expr", v.a, 1, v)
      [] pc = 1 -> Return(None)

\* IRGen.gen_expr(expr): the value returned is the name that holds the
\* result.  The places from 10 on are those after a call in the branch of
\* one type of node.
gen_expr(pc, v, r, G) ==
    CASE pc = 0 ->
            IF v.a = None \/ "type" \notin DOMAIN v.a THEN Return(<<>>)
            ELSE CASE v.a.type = "Number" -> Return(str(v.a.value))
                   [] v.a.type = "Variable" -> Return(v.a.name)
                   [] v.a.type = "BinaryOp" -> InvokeWith("gen_expr", v.a.left, 10, v)
                   [] v.a.type = "UnaryOp" -> InvokeWith("gen_expr", v.a.expr, 12, v)
                   [] v.a.type = "Deref" -> InvokeWith("gen_expr", v.a.expr, 13, v)
                   [] v.a.type \in {"AddrOf", "AddrOfMut"} ->
                         IF v.a.expr.type # "Variable" THEN Raise("ValueError")
                         ELSE Sets(emit(new_temp(G).self, ADDR, v.a.expr.name, <<>>,
                                        new_temp(G).val),
                                   Return(new_temp(G).val))
                   [] v.a.type = "Call" -> Goto(20, With(With(v, "i", 1), "args", <<>>))
                   [] v.a.type = "Index" -> InvokeWith("gen_expr", v.a.array, 30, v)
                   [] v.a.type = "TupleGet" -> InvokeWith("gen_expr", v.a.tuple, 32, v)
                   [] v.a.type \in {"Tuple", "Array"} ->
                         Goto(40, With(With(v, "i", 1), "elems", <<>>))
                   [] v.a.type = "IfExpr" -> InvokeWith("gen_expr", v.a.cond, 50, v)
                   [] v.a.type = "LoopExpr" ->
                         LET L == new_labels(G, 2)
                             T == new_temp(L.self)
                         IN  Sets(emit(LoopPushed(emit(T.self, LETOP,
                                                       BreakResult \o G.current_function,
                                                       <<>>, <<>>),
                                                  L.val[1], L.val[2]),
                                       LABEL, L.val[1], <<>>, <<>>),
                                  InvokeWith("gen_block_or_expr", v.a.body, 60,
                                             With(With(With(v, "label_start", L.val[1]),
                                                       "label_end", L.val[2]),
                                                  "result", T.val)))
                   [] v.a.type = "Block" -> Goto(70, With(With(v, "i", 1), "result", <<>>))
                   [] OTHER -> Return(<<>>)
      \* BinaryOp
      [] pc = 10 -> InvokeWith("gen_expr", v.a.right, 11, With(v, "left", r))
      [] pc = 11 -> Sets(emit(new_temp(G).self, v.a.op, v.left, r, new_temp(G).val),
                         Return(new_temp(G).val))
      \* UnaryOp
      [] pc = 12 -> Sets(emit(new_temp(G).self, v.a.op, r, <<>>, new_temp(G).val),
                         Return(new_temp(G).val))
      \* Deref
      [] pc = 13 -> Sets(emit(new_temp(G).self, LOAD, r, <<>>, new_temp(G).val),
                         Return(new_temp(G).val))
      \* Call: the loop over the arguments is place 20
      [] pc = 20 ->
            IF v.i <= Len(v.a.args) THEN InvokeWith("gen_expr", v.a.args[v.i], 21, v)
            ELSE IF v.a.func.type = "Variable"
            THEN Sets(emit(new_temp(G).self, CALL, v.a.func.name, str(Len(v.args)),
                           new_temp(G).val),
                      Return(new_temp(G).val))
            ELSE Sets(new_temp(G).self,
                      InvokeWith("gen_expr", v.a.func, 22, With(v, "tmp", new_temp(G).val)))
      [] pc = 21 -> Sets(emit(G, ARG, r, <<>>, str(v.i - 1)),
                         Goto(20, [v EXCEPT !.i = @ + 1, !.args = Append(@, r)]))
      [] pc = 22 -> Sets(emit(G, CALL, r, str(Len(v.args)), v.tmp), Return(v.tmp))
      \* Index
      [] pc = 30 -> InvokeWith("gen_expr", v.a.index, 31, With(v, "array", r))
      [] pc = 31 -> Sets(emit(new_temp(G).self, ALOAD, v.array, r, new_temp(G).val),
                         Return(new_temp(G).val))
      \* TupleGet
      [] pc = 32 -> Sets(emit(new_temp(G).self, TLOAD, r, str(v.a.index), new_temp(G).val),
                         Return(new_temp(G).val))
      \* Tuple and Array: the loop over the elements is place 40
      [] pc = 40 ->
            IF v.i <= Len(v.a.elems) THEN InvokeWith("gen_expr", v.a.elems[v.i], 41, v)
            ELSE Sets(emit(new_temp(G).self, IF v.a.type = "Tuple" THEN TUPLE ELSE ARRAY,
                           str(Len(v.elems)), join(v.elems), new_temp(G).val),
                      Return(new_temp(G).val))
      [] pc = 41 -> Goto(40, [v EXCEPT !.i = @ + 1, !.elems = Append(@, r)])
      \* IfExpr
      [] pc = 50 ->
            LET L == new_labels(G, 2)
                T == new_temp(L.self)
            IN  Sets(emit(T.self, IFZ, r, <<>>, L.val[1]),
                     InvokeWith("gen_expr", v.a.then, 51,
                                With(With(With(v, "label_else", L.val[1]),
                                          "label_end", L.val[2]),
                                     "result", T.val)))
      [] pc = 51 -> Sets(emit(emit(emit(G, <<"=">>, v.result, r, <<>>),
                                   GOTO, v.label_end, <<>>, <<>>),
                              LABEL, v.label_else, <<>>, <<>>),
                         InvokeWith("gen_expr", v.a.else, 52, v))
      [] pc = 52 -> Sets(emit(emit(G, <<"=">>, v.result, r, <<>>),
                              LABEL, v.label_end, <<>>, <<>>),
                         Return(v.result))
      \* LoopExpr
      [] pc = 60 -> Sets(LoopPopped(emit(emit(emit(G, GOTO, v.label_start, <<>>, <<>>),
                                              LABEL, v.label_end, <<>>, <<>>),
                                         <<"=">>, v.result,
                                         BreakResult \o G.current_function, <<>>)),
                         Return(v.result))
      \* Block: the loop over the statements is place 70
      [] pc = 70 ->
            IF v.i > Len(v.a.stmts) THEN Return(v.result)
            ELSE IF /\ v.i = Len(v.a.stmts)
                    /\ v.a.stmts[v.i].type = "ExprStmt"
                    /\ "tail" \in DOMAIN v.a.stmts[v.i]
                    /\ v.a.stmts[v.i].tail
            THEN InvokeWith("gen_expr", v.a.stmts[v.i].expr, 71, With(v, "i", v.i + 1))
            ELSE InvokeWith("gen_stmt", v.a.stmts[v.i], 70, With(v, "i", v.i + 1))
      [] pc = 71 -> Goto(70, With(v, "result", r))
\* what method fn does at place pc
Method(fn, pc, v, r, S) ==
    CASE fn = "parse_program" -> parse_program(pc, v, r)
      [] fn = "parse_function" -> parse_function(pc, v, r)
      [] fn = "parse_params" -> parse_params(pc, v, r)
      [] fn = "parse_type" -> parse_type(pc, v, r)
      [] fn = "parse_func_body" -> parse_func_body(pc, v, r)
      [] fn = "parse_block" -> parse_block(pc, v, r)
      [] fn = "parse_stmt" -> parse_stmt(pc, v, r)
      [] fn = "parse_let_stmt" -> parse_let_stmt(pc, v, r)
      [] fn = "parse_return_stmt" -> parse_return_stmt(pc, v, r)
      [] fn = "parse_if_stmt" -> parse_if_stmt(pc, v, r)
      [] fn = "parse_while_stmt" -> parse_while_stmt(pc, v, r)
      [] fn = "parse_for_stmt" -> parse_for_stmt(pc, v, r)
      [] fn = "parse_iterable" -> parse_iterable(pc, v, r)
      [] fn = "parse_loop_stmt" -> parse_loop_stmt(pc, v, r)
      [] fn = "parse_break_stmt" -> parse_break_stmt(pc, v, r)
      [] fn = "parse_continue_stmt" -> parse_continue_stmt(pc, v, r)
      [] fn = "parse_assign_or_expr_stmt" -> parse_assign_or_expr_stmt(pc, v, r)
      [] fn = "parse_block_or_expr" -> parse_block_or_expr(pc, v, r)
      [] fn = "parse_expr" -> parse_expr(pc, v, r)
      [] fn = "parse_if_expr" -> parse_if_expr(pc, v, r)
      [] fn = "parse_loop_expr" -> parse_loop_expr(pc, v, r)
      [] fn = "parse_cmp_expr" -> parse_cmp_expr(pc, v, r)
      [] fn = "parse_add_expr" -> parse_add_expr(pc, v, r)
      [] fn = "parse_mul_expr" -> parse_mul_expr(pc, v, r)
      [] fn = "parse_unary_expr" -> parse_unary_expr(pc, v, r)
      [] fn = "parse_postfix_expr" -> parse_postfix_expr(pc, v, r)
      [] fn = "parse_primary" -> parse_primary(pc, v, r)
      [] fn = "check" -> check(pc, v, r, S)
      [] fn = "check_function" -> check_function(pc, v, r, S)
      [] fn = "check_block" -> check_block(pc, v, r, S)
      [] fn = "check_stmt" -> check_stmt(pc, v, r, S)
      [] fn = "check_for" -> check_for(pc, v, r, S)
      [] fn = "check_if" -> check_if(pc, v, r, S)
      [] fn = "check_block_or_expr" -> check_block_or_expr(pc, v, r, S)
      [] fn = "gen" -> gen(pc, v, r, S)
      [] fn = "gen_function" -> gen_function(pc, v, r, S)
      [] fn = "gen_block" -> gen_block(pc, v, r, S)
      [] fn = "gen_stmt" -> gen_stmt(pc, v, r, S)
      [] fn = "gen_let" -> gen_let(pc, v, r, S)
      [] fn = "gen_assign" -> gen_assign(pc, v, r, S)
      [] fn = "gen_return" -> gen_return(pc, v, r, S)
      [] fn = "gen_if_stmt" -> gen_if_stmt(pc, v, r, S)
      [] fn = "gen_while_stmt" -> gen_while_stmt(pc, v, r, S)
      [] fn = "gen_for_stmt" -> gen_for_stmt(pc, v, r, S)
      [] fn = "gen_loop_stmt" -> gen_loop_stmt(pc, v, r, S)
      [] fn = "gen_break_stmt" -> gen_break_stmt(pc, v, r, S)
      [] fn = "gen_continue_stmt" -> gen_continue_stmt(pc, v, r, S)
      [] fn = "gen_block_or_expr" -> gen_block_or_expr(pc, v, r, S)
      [] fn = "gen_expr" -> gen_expr(pc, v, r, S)

\* an operation a method calls at one place: on the parser, whose state S is
\* its lexer, peek, match, expect, and the lexer's mark and reset; on the
\* checker the methods that check one statement or expression
Primitive(op, S, a) ==
    CASE op = "peek" -> peek(S, a)
      [] op = "match" -> match(S, a)
      [] op = "expect" -> expect(S, a)
      [] op = "mark" -> Ok(S, MarkOf(S))
      [] op = "reset" -> Ok(ResetOf(S, a), None)
      [] op = "register_function" -> Ok(register_function(S, a), None)
      [] op = "check_let" -> check_let(S, a)
      [] op = "check_assign" -> check_assign(S, a)
      [] op = "check_return" -> check_return(S, a[1], a[2], a[3])
      [] op = "check_expr" -> check_expr(S, a)

\* a new frame of a method
Frame(fn, a) == [fn |-> fn, pc |-> 0, v |-> [catch |-> 0, a |-> a]]

\* the stack with its top frame at place pc with locals v
Moved(stack, pc, v) == [stack EXCEPT ![Len(stack)] = [@ EXCEPT !.pc = pc, !.v = v]]

\* the frames that are in a try block
Handlers(stack) == {i \in DOMAIN stack : stack[i].v.catch # 0}

\* the stack whose top frame goes to its except clause and leaves the try block
Caught(stack) == Moved(stack, Last(stack).v.catch, [Last(stack).v EXCEPT !.catch = 0])

\* the stack after exception exc was raised in its top frame: the frames
\* above the innermost try block are dropped and that one goes to its
\* except clause; only SyntaxError is caught
Unwound(stack, exc) ==
    IF exc # "SyntaxError" \/ Handlers(stack) = {} THEN <<>>
    ELSE Caught(SubSeq(stack, 1, CHOOSE h \in Handlers(stack) :
                                    \A g \in Handlers(stack) : g <= h))

(***************************************************************************)
(* The lexer as a state machine: one action per public method              *)
(***************************************************************************)
LexChars == {";", " ", "@"}

TextsUpTo(n) == UNION {[1..m -> LexChars] : m \in 0..n}

NoCall == [op |-> "init", k |-> 0, out |-> "ok", ret |-> NoToken,
           pre |-> NewLexer, first |-> FALSE]

NoHist ==
    [marked |-> <<>>, used |-> <<>>, reused |-> FALSE, resets |-> 0, last |-> NoCall]

\* no request is being handled
Idle ==
    [stage |-> "idle", out |-> "ok", ast |-> None, tokens |-> <<>>, stack |-> <<>>,
     ret |-> None, checker |-> None, check |-> "none", irgen |-> None, ir |-> <<>>,
     calls |-> 0, ir0 |-> <<>>, steps |-> 0]

InitLexer ==
    /\ code \in TextsUpTo(MaxCodeLen)
    /\ lx = NewLexer
    /\ snaps = <<>>
    /\ alias = 0
    /\ hist = NoHist
    /\ run = Idle

\* the lexer can take a call: the last one returned or raised, and the model's
\* caps on the lists are not reached
Ready ==
    /\ hist.last.out # "hang"
    /\ Len(lx.emitted) <= MaxEmitted
    /\ Len(lx.buffer) <= MaxBuffer

\* the lists of the tuple the lexer's fields alias change with them
Shared(L) ==
    IF alias = 0 THEN snaps
    ELSE [snaps EXCEPT ![alias] = [@ EXCEPT !.buffer = L.buffer, !.emitted = L.emitted]]

\* what mark() saw, kept for every tuple
Kept == hist.marked

Called(op, k, r) ==
    /\ lx' = r.lex
    /\ snaps' = Shared(r.lex)
    /\ hist' = [hist EXCEPT !.marked = Kept,
                            !.last = [op |-> op, k |-> k, out |-> r.out, ret |-> r.ret,
                                      pre |-> lx, first |-> FALSE]]
    /\ UNCHANGED <<code, alias, run>>

Peek(k) == Ready /\ Called("peek", k, PeekOf(code, lx, k))

NextToken == Ready /\ Called("next_token", 0, NextTokenOf(code, lx))

DrainToEof == Ready /\ Called("drain_to_eof", 0, DrainOf(code, lx))

\* mutant: mark() returning the lexer's own lists instead of copies
MarkNoCopy ==
    /\ Ready
    /\ Len(snaps) < MaxSnaps
    /\ snaps' = Append(snaps, lx)
    /\ alias' = Len(snaps) + 1
    /\ hist' = [hist EXCEPT !.marked = Append(Kept, lx), !.used = Append(@, FALSE),
                            !.last = [op |-> "mark", k |-> Len(snaps) + 1, out |-> "ok",
                                      ret |-> NoToken, pre |-> lx, first |-> FALSE]]
    /\ UNCHANGED <<code, lx, run>>

\* Lexer.mark: the tuple holds copies of the two lists
Mark ==
    /\ Ready
    /\ Len(snaps) < MaxSnaps
    /\ snaps' = Append(snaps, lx)
    /\ hist' = [hist EXCEPT !.marked = Append(Kept, lx), !.used = Append(@, FALSE),
                            !.last = [op |-> "mark", k |-> Len(snaps) + 1, out |-> "ok",
                                      ret |-> NoToken, pre |-> lx, first |-> FALSE]]
    /\ UNCHANGED <<code, lx, alias, run>>

\* Lexer.reset(state): the fields become the tuple's members, lists included
Reset(i) ==
    /\ hist.last.out # "hang"
    /\ i \in 1..Len(snaps)
    /\ hist.resets < MaxResets
    /\ lx' = snaps[i]
    /\ alias' = i
    /\ hist' = [hist EXCEPT !.marked = Kept,
                            !.used = [@ EXCEPT ![i] = TRUE],
                            !.reused = @ \/ hist.used[i], !.resets = @ + 1,
                            !.last = [op |-> "reset", k |-> i, out |-> "ok",
                                      ret |-> NoToken, pre |-> lx,
                                      first |-> ~hist.used[i]]]
    /\ UNCHANGED <<code, snaps, run>>

NextLexer ==
    \/ \E k \in 0..MaxPeek : Peek(k)
    \/ NextToken
    \/ DrainToEof
    \/ Mark
    \/ \E i \in 1..MaxSnaps : Reset(i)

SpecLexer == InitLexer /\ [][NextLexer]_vars

(***************************************************************************)
(* Properties of the lexer                                                 *)
(***************************************************************************)

\* the offset the scan loop reaches from offset p by skipping the whitespace
\* and comments that match exactly there
RECURSIVE SkipTrivia(_, _)
SkipTrivia(s, p) ==
    IF p < Len(s) /\ MatchesAt(s, p) /\ LastGroup(s, p) \in {"WS", "COMMENT"}
    THEN SkipTrivia(s, MatchEnd(LastGroup(s, p), s, p))
    ELSE p

\* the last call was next_token on an empty buffer, and its scan came to an
\* offset before the end of the input at which no pattern matches
ScannedGarbage ==
    /\ hist.last.op = "next_token"
    /\ hist.last.pre.buffer = <<>>
    /\ ~hist.last.pre.eof_buffered
    /\ SkipTrivia(code, hist.last.pre.pos) < Len(code)
    /\ ~MatchesAt(code, SkipTrivia(code, hist.last.pre.pos))

\* C1: drain_to_eof, called on a lexer that has not yet consumed EOF (a new
\* lexer, or one left by any calls in which no mark() tuple was reset to twice),
\* returns, and the last token of get_tokens() is then EOF at pos len(code).
C1_DrainReachesEof ==
    (/\ hist.last.op = "drain_to_eof"
     /\ ~hist.last.pre.eof_emitted
     /\ ~hist.reused)
    => /\ hist.last.out = "ok"
       /\ GetTokens(lx) # <<>>
       /\ Last(GetTokens(lx)) = [type |-> "EOF", value |-> <<>>, pos |-> Len(code)]
       /\ lx.eof_emitted

C1_Witness ==
    /\ hist.last.op = "drain_to_eof"
    /\ ~hist.last.pre.eof_emitted
    /\ ~hist.reused
    /\ hist.last.pre.emitted = <<>>
    /\ Len(lx.emitted) = 3

\* C2: once the end of the input is reached and nothing but EOF is left (EOF is
\* the only buffered token, or was consumed), peek(k), next_token() and
\* drain_to_eof() return and yield the EOF token at pos len(code).
C2_EofPermanentTail ==
    (/\ hist.last.op \in {"peek", "next_token", "drain_to_eof"}
     /\ snaps = <<>>
     /\ hist.last.pre.eof_buffered
     /\ hist.last.pre.buffer \in {<<>>, <<EOFToken(code)>>})
    => /\ hist.last.out = "ok"
       /\ hist.last.op # "drain_to_eof" => hist.last.ret = EOFToken(code)
       /\ hist.last.op = "drain_to_eof" => Last(lx.emitted) = EOFToken(code)

\* C3: the first reset(s) to a tuple s = mark() restores offset, buffer, emitted
\* list and both EOF flags to what they were at mark(), so peek(0) returns then
\* what it returned (or would have returned) at mark().
C3_ResetRestores ==
    (hist.last.op = "reset" /\ hist.last.first)
    => /\ lx = hist.marked[hist.last.k]
       /\ PeekOf(code, lx, 0).ret = PeekOf(code, hist.marked[hist.last.k], 0).ret
       /\ PeekOf(code, lx, 0).out = PeekOf(code, hist.marked[hist.last.k], 0).out

C3_Witness ==
    /\ hist.last.op = "reset"
    /\ hist.last.first
    /\ Len(hist.last.pre.emitted) > Len(lx.emitted)
    /\ hist.last.pre.pos > lx.pos
    /\ hist.last.pre.eof_emitted /\ ~lx.eof_emitted

\* C5: the pos fields of the emitted tokens are non-decreasing in list order.
C5_EmittedPosMonotone ==
    \A i \in 1..(Len(lx.emitted) - 1) : lx.emitted[i].pos <= lx.emitted[i + 1].pos

C28_SnapshotReusable ==
    (hist.last.op = "reset" /\ ~hist.last.first)
    => lx = hist.marked[hist.last.k]
(***************************************************************************)
(* routes.py: analyze, the request handler, as the steps it takes          *)
(***************************************************************************)
HeaderLexemes == << <<"f","n">>, <<"f">>, <<"(">>, <<")">>, <<"{">> >>

BodyLexemes ==
    << <<"x">>, <<"1">>, <<";">>, <<"=">>, <<"{">>, <<"}">>, <<".">>, <<"@">> >>

\* the lexemes of a sequence, one space between two
RECURSIVE Flatten(_)
Flatten(lexemes) ==
    IF lexemes = <<>> THEN <<>>
    ELSE IF Len(lexemes) = 1 THEN lexemes[1]
    ELSE lexemes[1] \o <<" ">> \o Flatten(Tail(lexemes))

\* the sources of the parser's runs: a function header or nothing, then up
\* to MaxLexemes lexemes
Sources ==
    {Flatten(h \o [i \in DOMAIN b |-> BodyLexemes[b[i]]]) :
        h \in {<<>>, HeaderLexemes},
        b \in UNION {[1..m -> 1..Len(BodyLexemes)] : m \in 0..MaxLexemes}}

\* analyze on a source: parser = Parser(code), and parse_program is called
Analyzing(sources) ==
    /\ code \in sources
    /\ lx = NewLexer
    /\ snaps = <<>>
    /\ alias = 0
    /\ hist = NoHist
    /\ run = [Idle EXCEPT !.stage = "parse", !.stack = <<Frame("parse_program", None)>>]

InitParser == Analyzing(Sources)

\* the method on top of the stack goes on: S is the object, ret the value
\* given to the place the method is at
Goes(S, stack, ret) == [self |-> S, stack |-> stack, ret |-> ret, out |-> "ok"]

\* an exception left the stack as given: with no frame left it reaches the
\* caller in analyze
Thrown(S, stack, exc) ==
    IF stack # <<>> THEN Goes(S, stack, None)
    ELSE [self |-> S, stack |-> <<>>, ret |-> None, out |-> exc]

\* an operation called at a place gave p
Done(stack, p) ==
    IF p.out = "ok" THEN Goes(p.self, stack, p.val)
    ELSE Thrown(p.self, Unwound(stack, p.out), p.out)

\* the object after e: a checker method may have changed self
SelfAfter(S, e) == IF "self" \in DOMAIN e THEN e.self ELSE S

\* a step of the call on top of the stack: it does e.  When the last frame
\* returns, the stack is empty and ret is the value for analyze.
Perform(S, stack, e) ==
    CASE e.k = "do" -> Done(Moved(stack, e.pc, e.v), Primitive(e.op, SelfAfter(S, e), e.a))
      [] e.k = "invoke" ->
            Goes(SelfAfter(S, e), Append(Moved(stack, e.pc, e.v), Frame(e.fn, e.a)), None)
      [] e.k = "goto" -> Goes(SelfAfter(S, e), Moved(stack, e.pc, e.v), None)
      [] e.k = "return" -> Goes(SelfAfter(S, e), SubSeq(stack, 1, Len(stack) - 1), e.val)
      [] e.k = "raise" -> Thrown(SelfAfter(S, e), Unwound(stack, e.exc), e.exc)

\* what the method on top of the stack does at its place
Doing(S, top, ret) == Method(top.fn, top.pc, top.v, ret, S)

\* analyze after a step of parse_program left m: it goes on, or it returned
\* the tree and checker = Checker(ast); checker.check() is called, or it
\* raised.  run.steps counts the steps parse_program has taken.
Parsed(m) ==
    /\ lx' = m.self
    /\ run' = IF m.stack # <<>>
              THEN [run EXCEPT !.stack = m.stack, !.ret = m.ret, !.steps = @ + 1]
              ELSE IF m.out = "ok"
                   THEN [run EXCEPT !.stage = "check", !.ast = m.ret, !.ret = None,
                                    !.checker = Checker(m.ret),
                                    !.stack = <<Frame("check", None)>>, !.steps = @ + 1]
              ELSE [run EXCEPT !.stage = IF m.out = "hang" THEN "hang" ELSE "except",
                               !.out = m.out, !.stack = <<>>, !.ret = None,
                               !.steps = @ + 1]
    /\ UNCHANGED <<code, snaps, alias, hist>>

\* ast = parser.parse_program(), a step of it
ParseProgram ==
    /\ run.stage = "parse"
    /\ run.steps < MaxSteps
    /\ Parsed(Perform(lx, run.stack, Doing(lx, Last(run.stack), run.ret)))

\* analyze after a step of checker.check() left m: it goes on, or it
\* returned and irgen = IRGen(); irgen.gen(ast) is called, or it raised
Checked(m) ==
    /\ run' = IF m.stack # <<>>
              THEN [run EXCEPT !.checker = m.self, !.stack = m.stack, !.ret = m.ret]
              ELSE IF m.out = "ok"
                   THEN [run EXCEPT !.stage = "gen", !.checker = m.self, !.check = m.out,
                                    !.ret = None, !.irgen = IRGen,
                                    !.stack = <<Frame("gen", run.ast)>>]
              ELSE [run EXCEPT !.stage = "except", !.checker = m.self, !.check = m.out,
                               !.out = m.out, !.stack = <<>>, !.ret = None]
    /\ UNCHANGED <<code, lx, snaps, alias, hist>>

\* checker.check(), a step of it
Check ==
    /\ run.stage = "check"
    /\ Checked(Perform(run.checker, run.stack, Doing(run.checker, Last(run.stack), run.ret)))

\* analyze after a step of irgen.gen(ast) left m: it goes on, or it
\* returned the quadruples, or it raised.  CodeGen(ir).gen(), which runs
\* next, raises nothing and uses neither the lexer nor the tree.
Generated(m) ==
    /\ run' = IF m.stack # <<>>
              THEN [run EXCEPT !.irgen = m.self, !.stack = m.stack, !.ret = m.ret]
              ELSE IF m.out = "ok"
                   THEN [run EXCEPT !.stage = "drain", !.irgen = m.self, !.ir = m.ret,
                                    !.calls = @ + 1, !.stack = <<>>, !.ret = None]
              ELSE [run EXCEPT !.stage = "except", !.irgen = m.self, !.out = m.out,
                               !.stack = <<>>, !.ret = None]
    /\ UNCHANGED <<code, lx, snaps, alias, hist>>

\* ir = irgen.gen(ast), a step of it
Gen ==
    /\ run.stage = "gen"
    /\ Generated(Perform(run.irgen, run.stack, Doing(run.irgen, Last(run.stack), run.ret)))

\* the category analyze reports an exception in: a SyntaxError as it is, any
\* other exception after the words for 'other error'
Category(exc) == IF exc = "SyntaxError" THEN "syntax" ELSE "other"

\* the handler after the lexer was drained
Responded(d) ==
    /\ lx' = d.lex
    /\ run' = [run EXCEPT !.stage = IF d.out = "hang" THEN "hang" ELSE "done",
                          !.tokens = GetTokens(d.lex)]
    /\ UNCHANGED <<code, snaps, alias, hist>>

\* parser.lexer.drain_to_eof(); tokens = parser.lexer.get_tokens(), at the
\* end of the try block and in both except clauses
Respond ==
    /\ run.stage \in {"drain", "except"}
    /\ Responded(DrainOf(code, lx))

NextAnalyze == ParseProgram \/ Check \/ Gen \/ Respond

SpecParser == InitParser /\ [][NextAnalyze]_vars

\* the statements of the programs the checker is run on
Statements ==
    << << <<"l","e","t">>, <<"x">>, <<":">>, <<"i","3","2">>, <<"=">>, <<"1">>, <<";">> >>,
       << <<"l","e","t">>, <<"x">>, <<":">>, <<"i","3","2">>, <<";">> >>,
       << <<"l","e","t">>, <<"m","u","t">>, <<"x">>, <<":">>, <<"i","3","2">>, <<"=">>,
          <<"1">>, <<";">> >>,
       << <<"x">>, <<"=">>, <<"2">>, <<";">> >>,
       << <<"{">>, <<"x">>, <<"=">>, <<"2">>, <<";">>, <<"}">> >>,
       << <<"l","e","t">>, <<"y">>, <<"=">>, <<"x">>, <<";">> >>,
       << <<"l","o","o","p">>, <<"{">>, <<"b","r","e","a","k">>, <<"x">>, <<";">>, <<"}">> >>,
       << <<"l","e","t">>, <<"r">>, <<"=">>, <<"&","m","u","t">>, <<"x">>, <<";">> >>,
       << <<"l","e","t">>, <<"s">>, <<"=">>, <<"&">>, <<"x">>, <<";">> >>,
       << <<"{">>, <<"l","e","t">>, <<"s">>, <<"=">>, <<"&">>, <<"x">>, <<";">>, <<"}">> >>,
       << <<"*">>, <<"r">>, <<"=">>, <<"1">>, <<";">> >> >>

\* the lexemes of the statements chosen by b, in order
RECURSIVE Chosen(_)
Chosen(b) == IF b = <<>> THEN <<>> ELSE Statements[b[1]] \o Chosen(Tail(b))

\* the programs: one function of up to MaxStmts statements
Programs ==
    {Flatten(HeaderLexemes \o Chosen(b) \o << <<"}">> >>) :
        b \in UNION {[1..m -> 1..Len(Statements)] : m \in 0..MaxStmts}}

InitChecker == Analyzing(Programs)

SpecChecker == InitChecker /\ [][NextAnalyze]_vars


(***************************************************************************)
(* irgen.py on the trees of the parser: ast = Parser(code).parse_program(),*)
(* Checker(ast).check() to know the validated trees, and then calls of     *)
(* gen(ast), on a new generator or on the one of the call before           *)
(***************************************************************************)
MaxCalls == 2

\* the parser is run on a source to get the tree
Lowering(sources) ==
    /\ code \in sources
    /\ lx = NewLexer
    /\ snaps = <<>>
    /\ alias = 0
    /\ hist = NoHist
    /\ run = [Idle EXCEPT !.stage = "tree", !.stack = <<Frame("parse_program", None)>>]

\* after a step of parse_program left m: it goes on, or it returned the tree
\* and Checker(ast).check() is called, or it raised
Tree(m) ==
    /\ lx' = m.self
    /\ run' = IF m.stack # <<>> THEN [run EXCEPT !.stack = m.stack, !.ret = m.ret]
              ELSE IF m.out = "ok"
                   THEN [run EXCEPT !.stage = "validate", !.ast = m.ret, !.ret = None,
                                    !.checker = Checker(m.ret),
                                    !.stack = <<Frame("check", None)>>]
              ELSE [run EXCEPT !.stage = "stop", !.out = m.out, !.stack = <<>>,
                               !.ret = None]
    /\ UNCHANGED <<code, snaps, alias, hist>>

\* ast = Parser(code).parse_program(), a step of it
ParseTree ==
    /\ run.stage = "tree"
    /\ Tree(Perform(lx, run.stack, Doing(lx, Last(run.stack), run.ret)))

\* after a step of check() left m: it goes on, or it returned, and the tree
\* is a validated one, or it raised, and the tree is not; IRGen().gen(ast)
\* is called on the tree in both cases
Validated(m) ==
    /\ run' = IF m.stack # <<>>
              THEN [run EXCEPT !.checker = m.self, !.stack = m.stack, !.ret = m.ret]
              ELSE [run EXCEPT !.stage = "lower", !.checker = m.self, !.check = m.out,
                               !.ret = None, !.irgen = IRGen,
                               !.stack = <<Frame("gen", run.ast)>>]
    /\ UNCHANGED <<code, lx, snaps, alias, hist>>

\* Checker(ast).check(), a step of it
Validate ==
    /\ run.stage = "validate"
    /\ Validated(Perform(run.checker, run.stack, Doing(run.checker, Last(run.stack), run.ret)))

\* after a step of gen(ast) left m: it goes on, or it returned the
\* quadruples, or it raised
Lowered(m) ==
    /\ run' = IF m.stack # <<>>
              THEN [run EXCEPT !.irgen = m.self, !.stack = m.stack, !.ret = m.ret]
              ELSE IF m.out = "ok"
                   THEN [run EXCEPT !.stage = "lowered", !.irgen = m.self, !.ir = m.ret,
                                    !.ir0 = run.ir, !.calls = @ + 1, !.stack = <<>>,
                                    !.ret = None]
              ELSE [run EXCEPT !.stage = "stop", !.irgen = m.self, !.out = m.out,
                               !.stack = <<>>, !.ret = None]
    /\ UNCHANGED <<code, lx, snaps, alias, hist>>

\* gen(ast), a step of it
Lower ==
    /\ run.stage = "lower"
    /\ Lowered(Perform(run.irgen, run.stack, Doing(run.irgen, Last(run.stack), run.ret)))

\* gen(ast) is called once more, on the same generator or on a new one
Again ==
    /\ run.stage = "lowered"
    /\ run.calls < MaxCalls
    /\ \E g \in {run.irgen, IRGen} :
          run' = [run EXCEPT !.stage = "lower", !.irgen = g,
                             !.stack = <<Frame("gen", run.ast)>>]
    /\ UNCHANGED <<code, lx, snaps, alias, hist>>

NextLowering == ParseTree \/ Validate \/ Lower \/ Again

(***************************************************************************)
(* The programs of the loops: break and continue, alone or in the body of  *)
(* a loop, a condition or a block, nested up to MaxNest deep                *)
(***************************************************************************)
MaxNest == 2

Atoms ==
    << << <<"b","r","e","a","k">>, <<";">> >>,
       << <<"c","o","n","t","i","n","u","e">>, <<";">> >> >>

\* what stands before and after the statements put in: loop { _ },
\* while 1 { _ }, while { _ 1 } { }, if 1 { _ }, if 1 { } else { _ }, { _ },
\* for x in 1 .. 2 { _ }, for x in 1 { _ }, let y = loop { _ } ;,
\* for x in { _ 1 } .. 2 { }
Wrappers ==
    << << << <<"l","o","o","p">>, <<"{">> >>, << <<"}">> >> >>,
       << << <<"w","h","i","l","e">>, <<"1">>, <<"{">> >>, << <<"}">> >> >>,
       << << <<"w","h","i","l","e">>, <<"{">> >>, << <<"1">>, <<"}">>, <<"{">>, <<"}">> >> >>,
       << << <<"i","f">>, <<"1">>, <<"{">> >>, << <<"}">> >> >>,
       << << <<"i","f">>, <<"1">>, <<"{">>, <<"}">>, <<"e","l","s","e">>, <<"{">> >>,
          << <<"}">> >> >>,
       << << <<"{">> >>, << <<"}">> >> >>,
       << << <<"f","o","r">>, <<"x">>, <<"i","n">>, <<"1">>, <<".",".">>, <<"2">>, <<"{">> >>,
          << <<"}">> >> >>,
       << << <<"f","o","r">>, <<"x">>, <<"i","n">>, <<"1">>, <<"{">> >>, << <<"}">> >> >>,
       << << <<"l","e","t">>, <<"y">>, <<"=">>, <<"l","o","o","p">>, <<"{">> >>,
          << <<"}">>, <<";">> >> >>,
       << << <<"f","o","r">>, <<"x">>, <<"i","n">>, <<"{">> >>,
          << <<"1">>, <<"}">>, <<".",".">>, <<"2">>, <<"{">>, <<"}">> >> >> >>

\* nothing, or break ; or continue ;
Rest == {<<>>} \cup {Atoms[i] : i \in DOMAIN Atoms}

\* the lexemes of one statement that is nested at most d deep: the
\* statements put in are one statement nested less deep and then break ; or
\* continue ; or nothing, or they are none
RECURSIVE Nested(_)
Nested(d) ==
    IF d = 0 THEN {Atoms[i] : i \in DOMAIN Atoms}
    ELSE Nested(d - 1)
         \cup {Wrappers[w][1] \o Wrappers[w][2] : w \in DOMAIN Wrappers}
         \cup {Wrappers[w][1] \o s \o t \o Wrappers[w][2] :
                   w \in DOMAIN Wrappers, s \in Nested(d - 1), t \in Rest}

\* fn f ( ) 1: a function whose body is an expression
BareBody == << <<"f","n">>, <<"f">>, <<"(">>, <<")">>, <<"1">> >>

\* the programs: one function of no or one statement, and the function
\* whose body is an expression
FlowPrograms ==
    {Flatten(HeaderLexemes \o s \o << <<"}">> >>) : s \in {<<>>} \cup Nested(MaxNest)}
    \cup {Flatten(BareBody)}

InitFlow == Analyzing(FlowPrograms)

SpecFlow == InitFlow /\ [][NextAnalyze]_vars

\* one loop, if or block with break ; or continue ; in it
Singles ==
    {Wrappers[w][1] \o Atoms[i] \o Wrappers[w][2] :
        w \in DOMAIN Wrappers, i \in DOMAIN Atoms}

\* fn g ( ) {
SecondHeader == << <<"f","n">>, <<"g">>, <<"(">>, <<")">>, <<"{">> >>

\* the programs of two functions, of one statement each
TwoFunctions ==
    {Flatten(HeaderLexemes \o s \o << <<"}">> >> \o SecondHeader \o t \o << <<"}">> >>) :
        s \in Singles, t \in Singles}

\* the conditions of the ifs: 1 < 2 and 1 + 2 < 3
Conditions ==
    { << <<"1">>, <<"<">>, <<"2">> >>,
      << <<"1">>, <<"+">>, <<"2">>, <<"<">>, <<"3">> >> }

\* the branches of the ifs: { }, { loop { } } and { if 1 { } }
Branches ==
    { << <<"{">>, <<"}">> >>,
      << <<"{">>, <<"l","o","o","p">>, <<"{">>, <<"}">>, <<"}">> >>,
      << <<"{">>, <<"i","f">>, <<"1">>, <<"{">>, <<"}">>, <<"}">> >> }

\* the programs of one if, with an else branch or without
IfPrograms ==
    {Flatten(HeaderLexemes \o << <<"i","f">> >> \o c \o t \o e \o << <<"}">> >>) :
        c \in Conditions, t \in Branches,
        e \in {<<>>} \cup {<< <<"e","l","s","e">> >> \o b : b \in Branches}}

\* the programs gen is called on
LoweringPrograms == FlowPrograms \cup TwoFunctions \cup IfPrograms

InitLowering == Lowering(LoweringPrograms)

SpecLowering == InitLowering /\ [][NextLowering]_vars

(***************************************************************************)
(* The programs of the scopes: up to MaxScoped statements that declare     *)
(* names in blocks and use them after                                       *)
(***************************************************************************)
MaxScoped == 2

\* let a = 1 ;  if 1 { let z = 1 ; }  loop { let z = 1 ; break ; }
\* for x in 1 { let z = x ; }  while 1 { let z = 1 ; if 1 { let u = z ; } }
\* let w = z ;  let w = x ;  let w = a ;  for x in 1 .. 2 { }
Scoped ==
    << << <<"l","e","t">>, <<"a">>, <<"=">>, <<"1">>, <<";">> >>,
       << <<"i","f">>, <<"1">>, <<"{">>, <<"l","e","t">>, <<"z">>, <<"=">>, <<"1">>, <<";">>,
          <<"}">> >>,
       << <<"l","o","o","p">>, <<"{">>, <<"l","e","t">>, <<"z">>, <<"=">>, <<"1">>, <<";">>,
          <<"b","r","e","a","k">>, <<";">>, <<"}">> >>,
       << <<"f","o","r">>, <<"x">>, <<"i","n">>, <<"1">>, <<"{">>, <<"l","e","t">>, <<"z">>,
          <<"=">>, <<"x">>, <<";">>, <<"}">> >>,
       << <<"w","h","i","l","e">>, <<"1">>, <<"{">>, <<"l","e","t">>, <<"z">>, <<"=">>, <<"1">>,
          <<";">>, <<"i","f">>, <<"1">>, <<"{">>, <<"l","e","t">>, <<"u">>, <<"=">>, <<"z">>,
          <<";">>, <<"}">>, <<"}">> >>,
       << <<"l","e","t">>, <<"w">>, <<"=">>, <<"z">>, <<";">> >>,
       << <<"l","e","t">>, <<"w">>, <<"=">>, <<"x">>, <<";">> >>,
       << <<"l","e","t">>, <<"w">>, <<"=">>, <<"a">>, <<";">> >>,
       << <<"f","o","r">>, <<"x">>, <<"i","n">>, <<"1">>, <<".",".">>, <<"2">>, <<"{">>,
          <<"}">> >> >>

\* the lexemes of the statements chosen by b, in order
RECURSIVE ScopedChosen(_)
ScopedChosen(b) == IF b = <<>> THEN <<>> ELSE Scoped[b[1]] \o ScopedChosen(Tail(b))

\* the programs: one function of up to MaxScoped of the statements
ScopePrograms ==
    {Flatten(HeaderLexemes \o ScopedChosen(b) \o << <<"}">> >>) :
        b \in UNION {[1..m -> 1..Len(Scoped)] : m \in 0..MaxScoped}}

InitScopes == Analyzing(ScopePrograms)

SpecScopes == InitScopes /\ [][NextAnalyze]_vars

(***************************************************************************)
(* The programs of the arrays: an array of a known size is declared, then  *)
(* its elements are read and assigned at literal indices                   *)
(***************************************************************************)
MaxIndex == 2
MaxUses == 2

\* let mut a : [ i32 ; 1 ] = [ 1 ] ;   let mut a : [ i32 ; 2 ] = [ 1 , 1 ] ;
\* let mut a = [ 1 , 1 ] ;   let mut a : [ i32 ; 0 ] ;
ArrayDecls ==
    << << <<"l","e","t">>, <<"m","u","t">>, <<"a">>, <<":">>, <<"[">>, <<"i","3","2">>,
          <<";">>, <<"1">>, <<"]">>, <<"=">>, <<"[">>, <<"1">>, <<"]">>, <<";">> >>,
       << <<"l","e","t">>, <<"m","u","t">>, <<"a">>, <<":">>, <<"[">>, <<"i","3","2">>,
          <<";">>, <<"2">>, <<"]">>, <<"=">>, <<"[">>, <<"1">>, <<",">>, <<"1">>, <<"]">>,
          <<";">> >>,
       << <<"l","e","t">>, <<"m","u","t">>, <<"a">>, <<"=">>, <<"[">>, <<"1">>, <<",">>,
          <<"1">>, <<"]">>, <<";">> >>,
       << <<"l","e","t">>, <<"m","u","t">>, <<"a">>, <<":">>, <<"[">>, <<"i","3","2">>,
          <<";">>, <<"0">>, <<"]">>, <<";">> >> >>

\* let y = a [ k ] ;
IndexRead(k) ==
    << <<"l","e","t">>, <<"y">>, <<"=">>, <<"a">>, <<"[">>, <<DigitChars[k + 1]>>, <<"]">>,
       <<";">> >>

\* a [ k ] = 1 ;
IndexWrite(k) ==
    << <<"a">>, <<"[">>, <<DigitChars[k + 1]>>, <<"]">>, <<"=">>, <<"1">>, <<";">> >>

IndexUses == {IndexRead(k) : k \in 0..MaxIndex} \cup {IndexWrite(k) : k \in 0..MaxIndex}

\* the lexemes of up to n uses, one after the other
RECURSIVE UsesUpTo(_)
UsesUpTo(n) ==
    IF n = 0 THEN {<<>>}
    ELSE UsesUpTo(n - 1) \cup {u \o s : u \in IndexUses, s \in UsesUpTo(n - 1)}

\* the programs: one function that declares the array and uses it
IndexPrograms ==
    {Flatten(HeaderLexemes \o ArrayDecls[d] \o s \o << <<"}">> >>) :
        d \in DOMAIN ArrayDecls, s \in UsesUpTo(MaxUses)}

InitIndex == Analyzing(IndexPrograms)

SpecIndex == InitIndex /\ [][NextAnalyze]_vars

(***************************************************************************)
(* The programs of the loop expressions: let y = loop { ... } ; with up to *)
(* MaxItems statements in the body                                          *)
(***************************************************************************)
MaxItems == 2

\* break 7 ; break ; continue ; if 1 { break 7 ; } while 1 { break 8 ; }
\* let z = loop { break 1 ; } ; break loop { break 1 ; } ;
LoopItems ==
    << << <<"b","r","e","a","k">>, <<"7">>, <<";">> >>,
       << <<"b","r","e","a","k">>, <<";">> >>,
       << <<"c","o","n","t","i","n","u","e">>, <<";">> >>,
       << <<"i","f">>, <<"1">>, <<"{">>, <<"b","r","e","a","k">>, <<"7">>, <<";">>, <<"}">> >>,
       << <<"w","h","i","l","e">>, <<"1">>, <<"{">>, <<"b","r","e","a","k">>, <<"8">>, <<";">>,
          <<"}">> >>,
       << <<"l","e","t">>, <<"z">>, <<"=">>, <<"l","o","o","p">>, <<"{">>,
          <<"b","r","e","a","k">>, <<"1">>, <<";">>, <<"}">>, <<";">> >>,
       << <<"b","r","e","a","k">>, <<"l","o","o","p">>, <<"{">>, <<"b","r","e","a","k">>,
          <<"1">>, <<";">>, <<"}">>, <<";">> >> >>

\* let y = loop {  and  let y : i32 = loop {
LoopExprHeads ==
    { << <<"l","e","t">>, <<"y">>, <<"=">>, <<"l","o","o","p">>, <<"{">> >>,
      << <<"l","e","t">>, <<"y">>, <<":">>, <<"i","3","2">>, <<"=">>, <<"l","o","o","p">>,
         <<"{">> >> }

\* the lexemes of the items chosen by b, in order
RECURSIVE ItemsChosen(_)
ItemsChosen(b) == IF b = <<>> THEN <<>> ELSE LoopItems[b[1]] \o ItemsChosen(Tail(b))

\* the programs: one function of one let whose value is a loop
LoopExprPrograms ==
    {Flatten(HeaderLexemes \o h \o ItemsChosen(b) \o << <<"}">>, <<";">>, <<"}">> >>) :
        h \in LoopExprHeads,
        b \in UNION {[1..m -> 1..Len(LoopItems)] : m \in 0..MaxItems}}

InitLoopExpr == Analyzing(LoopExprPrograms)

SpecLoopExpr == InitLoopExpr /\ [][NextAnalyze]_vars

(***************************************************************************)
(* The programs of the last item of a block: an expression in front of }   *)
(* or in front of ;, after up to MaxLead statements                         *)
(***************************************************************************)
MaxLead == 1

\* 1, x, 1 + 2, { 1 }, if 1 { 2 } else { 3 }, loop { break 1 ; }
TailExprs ==
    << << <<"1">> >>,
       << <<"x">> >>,
       << <<"1">>, <<"+">>, <<"2">> >>,
       << <<"{">>, <<"1">>, <<"}">> >>,
       << <<"i","f">>, <<"1">>, <<"{">>, <<"2">>, <<"}">>, <<"e","l","s","e">>, <<"{">>,
          <<"3">>, <<"}">> >>,
       << <<"l","o","o","p">>, <<"{">>, <<"b","r","e","a","k">>, <<"1">>, <<";">>, <<"}">> >> >>

\* n statements 1 ;
RECURSIVE Lead(_)
Lead(n) == IF n = 0 THEN <<>> ELSE << <<"1">>, <<";">> >> \o Lead(n - 1)

\* the programs: one function whose block ends with an expression and } or
\* with an expression and ; }
TailPrograms ==
    {Flatten(HeaderLexemes \o Lead(n) \o TailExprs[i] \o t \o << <<"}">> >>) :
        n \in 0..MaxLead, i \in DOMAIN TailExprs, t \in {<<>>, << <<";">> >>}}

InitTail == Analyzing(TailPrograms)

SpecTail == InitTail /\ [][NextAnalyze]_vars

(***************************************************************************)
(* checker.py: types_equal on the types built from i32, arrays, references *)
(* and tuples.  i32 is the str 'i32', as type_of and check_expr give it,   *)
(* or the dict {'id': 'i32'} of parse_type.                                *)
(***************************************************************************)
MaxTypeDepth == 2
MaxSize == 2
MaxArity == 2

\* the types nested at most d deep
RECURSIVE TypesUpTo(_)
TypesUpTo(d) ==
    IF d = 0 THEN {i32, [id |-> <<"i", "3", "2">>]}
    ELSE TypesUpTo(d - 1)
         \cup {[array |-> t, size |-> n] : t \in TypesUpTo(d - 1), n \in 1..MaxSize}
         \cup {[ref |-> m, to |-> t] : m \in {"mut", "imm"}, t \in TypesUpTo(d - 1)}
         \cup {[tuple |-> s] : s \in UNION {[1..n -> TypesUpTo(d - 1)] : n \in 0..MaxArity}}

\* two types are about to be compared
InitTypes ==
    /\ code = <<>>
    /\ lx = NewLexer
    /\ snaps = <<>>
    /\ alias = 0
    /\ hist = NoHist
    /\ \E type1 \in TypesUpTo(MaxTypeDepth), type2 \in TypesUpTo(MaxTypeDepth) :
          run = [Idle EXCEPT !.stage = "types", !.ret = <<type1, type2>>]

\* types_equal(type1, type2), types_equal(type2, type1) and
\* types_equal(type1, type1) are called
TypesEqual ==
    /\ run.stage = "types"
    /\ run' = [run EXCEPT !.stage = "compared",
                          !.ret = [type1 |-> run.ret[1], type2 |-> run.ret[2],
                                   equal |-> types_equal(run.ret[1], run.ret[2]),
                                   back |-> types_equal(run.ret[2], run.ret[1]),
                                   self |-> types_equal(run.ret[1], run.ret[1])]]
    /\ UNCHANGED <<code, lx, snaps, alias, hist>>

NextTypes == TypesEqual

SpecTypes == InitTypes /\ [][NextTypes]_vars
(***************************************************************************)
(* Properties of the parser                                                *)
(***************************************************************************)
\* C4: when analyze has drained the parser's lexer, after parse_program has
\* returned or raised (and however often parse_block and
\* parse_assign_or_expr_stmt went back to a mark), get_tokens() is the token
\* list a new lexer gives by draining the same source, and it ends in the
\* one EOF token, at pos len(input).
C4_NoTraceOfBacktracking ==
    run.stage = "done" =>
        /\ run.tokens = Tokenize(code)
        /\ Last(run.tokens) = EOFToken(code)
        /\ \A i \in 1..(Len(run.tokens) - 1) : run.tokens[i].type # "EOF"

\* a run in which the parser backtracked twice (an expression without a
\* semicolon at the end of a block) and returned a tree
C4_Witness ==
    /\ run.stage = "done"
    /\ run.out = "ok"
    /\ Len(run.tokens) > Len(HeaderLexemes) + 2
    /\ \E d \in DOMAIN run.ast.decls :
          /\ run.ast.decls[d].body.type = "Block"
          /\ run.ast.decls[d].body.stmts # <<>>
          /\ "tail" \in DOMAIN Last(run.ast.decls[d].body.stmts)

(***************************************************************************)
(* Properties of the checker                                               *)
(***************************************************************************)
\* what a program does to its variables, in the order of the source: a scope
\* is entered or left, a variable is declared (let), written (an assignment
\* to it), read, or referenced (ref)
RECURSIVE Events(_)
RECURSIVE EventsOfAll(_)
Events(node) ==
    IF node = None THEN <<>>
    ELSE IF "range" \in DOMAIN node THEN Events(node.range[1]) \o Events(node.range[2])
    ELSE CASE node.type = "Function" ->
            <<[e |-> "enter"]>>
            \o [i \in DOMAIN node.params |->
                   [e |-> "let", name |-> node.params[i].name, mut |-> node.params[i].mut,
                    inited |-> TRUE]]
            \o Events(node.body) \o <<[e |-> "exit"]>>
      [] node.type = "Block" ->
            <<[e |-> "enter"]>> \o EventsOfAll(node.stmts) \o <<[e |-> "exit"]>>
      [] node.type = "Let" ->
            Events(node.val)
            \o <<[e |-> "let", name |-> node.name, mut |-> node.mut,
                  inited |-> node.val # None]>>
      [] node.type = "Assign" ->
            Events(node.val)
            \o (IF node.target.type = "Variable"
                THEN <<[e |-> "write", name |-> node.target.name]>> ELSE <<>>)
      [] node.type \in {"Return", "Break", "ExprStmt", "UnaryOp", "Deref"} ->
            Events(node.expr)
      [] node.type \in {"If", "IfExpr"} ->
            Events(node.cond) \o Events(node.then) \o Events(node.else)
      [] node.type = "While" -> Events(node.cond) \o Events(node.body)
      [] node.type \in {"Loop", "LoopExpr"} -> Events(node.body)
      [] node.type = "For" ->
            <<[e |-> "enter"],
              [e |-> "let", name |-> node.iter.name, mut |-> node.iter.mut, inited |-> TRUE]>>
            \o Events(node.iter.iter) \o Events(node.body) \o <<[e |-> "exit"]>>
      [] node.type = "BinaryOp" -> Events(node.left) \o Events(node.right)
      [] node.type \in {"AddrOf", "AddrOfMut"} ->
            IF node.expr.type = "Variable"
            THEN <<[e |-> "ref", name |-> node.expr.name,
                    kind |-> IF node.type = "AddrOf" THEN "imm" ELSE "mut"]>>
            ELSE Events(node.expr)
      [] node.type = "Call" -> EventsOfAll(node.args)
      [] node.type = "Index" -> Events(node.array) \o Events(node.index)
      [] node.type = "TupleGet" -> Events(node.tuple)
      [] node.type \in {"Array", "Tuple"} -> EventsOfAll(node.elems)
      [] node.type = "Variable" -> <<[e |-> "read", name |-> node.name]>>
      [] OTHER -> <<>>

EventsOfAll(nodes) ==
    IF nodes = <<>> THEN <<>> ELSE Events(nodes[1]) \o EventsOfAll(Tail(nodes))

\* the rule an event breaks, given the symbols in scope (E holds the scopes):
\* a write to a variable that is not mut and is initialized, a read of a
\* variable that is not initialized, a reference that meets a mutable one
Breach(E, ev) ==
    IF ev.e \notin {"write", "read", "ref"} \/ ScopeOf(E, ev.name) = 0 THEN {}
    ELSE IF ev.e = "write"
         THEN IF ~resolve_var(E, ev.name).mut /\ resolve_var(E, ev.name).inited
              THEN {"reassign"} ELSE {}
    ELSE IF ev.e = "read"
         THEN IF ~resolve_var(E, ev.name).inited THEN {"uninit"} ELSE {}
    ELSE IF ev.kind = "mut"
         THEN IF ~resolve_var(E, ev.name).mut \/ resolve_var(E, ev.name).refs # <<>>
              THEN {"alias"} ELSE {}
    ELSE IF \E i \in DOMAIN resolve_var(E, ev.name).refs :
               resolve_var(E, ev.name).refs[i] = "mut"
         THEN {"alias"} ELSE {}

\* the symbols in scope after an event
After(E, ev) ==
    CASE ev.e = "enter" -> Pushed(E)
      [] ev.e = "exit" -> Popped(E)
      [] ev.e = "let" -> define_var(E, ev.name, None, ev.mut, ev.inited)
      [] ev.e = "write" /\ ScopeOf(E, ev.name) # 0 ->
            Assigned(E, ev.name, [resolve_var(E, ev.name) EXCEPT !.inited = TRUE])
      [] ev.e = "ref" /\ ScopeOf(E, ev.name) # 0 ->
            Assigned(E, ev.name, [resolve_var(E, ev.name) EXCEPT !.refs = Append(@, ev.kind)])
      [] OTHER -> E

\* the rules the events from the i-th on break
RECURSIVE BreachesFrom(_, _, _)
BreachesFrom(events, i, E) ==
    IF i > Len(events) THEN {}
    ELSE Breach(E, events[i]) \cup BreachesFrom(events, i + 1, After(E, events[i]))

\* the rules a program breaks
Breaches(ast) == BreachesFrom(EventsOfAll(ast.decls), 1, [scopes |-> <<EmptyDict>>])

\* C7: no program passes the checker that assigns to a variable that is not
\* declared mut and is initialized at that assignment, wherever the
\* assignment is: in the function body, a nested block, a loop body or a
\* block used as an expression.
C7_NoReassignment ==
    run.check = "ok" => "reassign" \notin Breaches(run.ast)

\* C8: every program in which a variable is read while its initialized flag
\* is unset is rejected, whatever the place of the read (a let initializer,
\* an operand, an argument, a condition, a break value, or inside an if-,
\* loop- or block-expression).
C8_NoUninitializedRead ==
    run.check = "ok" => "uninit" \notin Breaches(run.ast)

\* C9: no program passes the checker in which, within one function, &mut x
\* is created and afterwards another reference to x, or &mut x is created
\* for an x that is not mut or that was referenced before.
C9_NoAliasedMutRef ==
    run.check = "ok" => "alias" \notin Breaches(run.ast)

\* the checker is about to check the statement stmt
Checking(stmt) ==
    /\ run.stage = "check"
    /\ Last(run.stack).fn = "check_stmt"
    /\ Last(run.stack).pc = 0
    /\ Last(run.stack).v.a[1] = stmt

\* the target of an assignment is the dereference of an expression of
\* reference type and the value has the type referred to
DerefAssign(K, stmt) ==
    /\ stmt.target.type = "Deref"
    /\ check_expr(K, stmt.target.expr).out = "ok"
    /\ IsDict(check_expr(K, stmt.target.expr).val)
    /\ "ref" \in DOMAIN check_expr(K, stmt.target.expr).val
    /\ check_expr(K, stmt.val).out = "ok"
    /\ types_equal(check_expr(K, stmt.val).val, check_expr(K, stmt.target.expr).val.to)

\* the target of an assignment has none of the four shapes
OtherTarget(K, stmt) ==
    /\ ~(stmt.target.type = "Variable")
    /\ ~(stmt.target.type = "Index" /\ stmt.target.array.type = "Variable")
    /\ ~(stmt.target.type = "TupleGet" /\ stmt.target.tuple.type = "Variable")
    /\ ~(/\ stmt.target.type = "Deref"
         /\ check_expr(K, stmt.target.expr).out = "ok"
         /\ IsDict(check_expr(K, stmt.target.expr).val)
         /\ "ref" \in DOMAIN check_expr(K, stmt.target.expr).val)

\* C10: the checker accepts an assignment to the dereference of an
\* expression of reference type, with a value of the type referred to, as it
\* accepts one to a variable, an element or a tuple member of a variable; an
\* assignment whose target has another shape is rejected.
C10_AssignTargetShapes ==
    \A i \in DOMAIN run.stack :
        (i = Len(run.stack) /\ run.stack[i].v.a # None /\ Checking(run.stack[i].v.a[1])
         /\ run.stack[i].v.a[1].type = "Assign") =>
            /\ DerefAssign(run.checker, run.stack[i].v.a[1])
                   => check_assign(run.checker, run.stack[i].v.a[1]).out = "ok"
            /\ OtherTarget(run.checker, run.stack[i].v.a[1])
                   => check_assign(run.checker, run.stack[i].v.a[1]).out # "ok"


\* the statements of the only function of the program that was parsed, when
\* its body is a block
TopStmts ==
    IF run.ast # None /\ Len(run.ast.decls) = 1 /\ "stmts" \in DOMAIN run.ast.decls[1].body
    THEN run.ast.decls[1].body.stmts ELSE <<>>

\* for x in a..b body with numbers a and b and a body of break and continue
\* statements or none
ForOverRange(stmt) ==
    /\ stmt.type = "For"
    /\ "range" \in DOMAIN stmt.iter.iter
    /\ stmt.iter.iter.range[1].type = "Number"
    /\ stmt.iter.iter.range[2].type = "Number"
    /\ stmt.body.type = "Block"
    /\ \A i \in DOMAIN stmt.body.stmts : stmt.body.stmts[i].type \in {"Break", "Continue"}

\* C11: the checker completes without error on a function whose statement is
\* for x in a..b body with well-typed endpoints a and b and a well-typed
\* body.
C11_ForOverRangeAccepted ==
    (run.check # "none" /\ Len(TopStmts) = 1 /\ ForOverRange(TopStmts[1]))
        => run.check = "ok"

(***************************************************************************)
(* Properties of the generator of the quadruples                           *)
(***************************************************************************)
\* the generator is about to lower a break or a continue statement
LoweringJump ==
    /\ run.stage \in {"gen", "lower"}
    /\ run.stack # <<>>
    /\ Last(run.stack).fn \in {"gen_break_stmt", "gen_continue_stmt"}
    /\ Last(run.stack).pc = 0

\* C12: when the generator lowers a break or a continue of a program that
\* the checker accepted, its loop stack is not empty: the statement is
\* inside a loop.
C12_JumpInsideLoop ==
    (run.check = "ok" /\ LoweringJump) => run.irgen.loop_stack # <<>>

\* the statement the checker is about to check is let y = a[k] or
\* a[k] = v with a literal number k, v a number and a a variable in scope
\* whose type is an array of i32 of a known size; a is initialized when it
\* is read and mut when it is assigned
IndexUse(K, stmt) ==
    /\ \/ /\ stmt.type = "Let"
          /\ stmt.val # None
          /\ stmt.val.type = "Index"
          /\ stmt.val.array.type = "Variable"
          /\ stmt.val.index.type = "Number"
          /\ ScopeOf(K, stmt.val.array.name) # 0
          /\ resolve_var(K, stmt.val.array.name).inited
       \/ /\ stmt.type = "Assign"
          /\ stmt.target.type = "Index"
          /\ stmt.target.array.type = "Variable"
          /\ stmt.target.index.type = "Number"
          /\ stmt.val.type = "Number"
          /\ ScopeOf(K, stmt.target.array.name) # 0
          /\ resolve_var(K, stmt.target.array.name).mut
    /\ IsDict(resolve_var(K, IF stmt.type = "Let" THEN stmt.val.array.name
                             ELSE stmt.target.array.name).typ)
    /\ "array" \in DOMAIN resolve_var(K, IF stmt.type = "Let" THEN stmt.val.array.name
                                         ELSE stmt.target.array.name).typ
    /\ resolve_var(K, IF stmt.type = "Let" THEN stmt.val.array.name
                      ELSE stmt.target.array.name).typ.array = i32

\* the index k and the size n of a use
IndexOf(stmt) == IF stmt.type = "Let" THEN stmt.val.index.value ELSE stmt.target.index.value

SizeOf(K, stmt) ==
    resolve_var(K, IF stmt.type = "Let" THEN stmt.val.array.name
                   ELSE stmt.target.array.name).typ.size

\* what the checker answers to the statement
Answer(K, stmt) == IF stmt.type = "Let" THEN check_let(K, stmt) ELSE check_assign(K, stmt)

\* the checker is at a use of an element at a literal index
AtIndexUse ==
    /\ run.stage = "check"
    /\ Last(run.stack).fn = "check_stmt"
    /\ Last(run.stack).pc = 0
    /\ IndexUse(run.checker, Last(run.stack).v.a[1])

\* C13: a read or an assignment of an element at the literal index k of an
\* array of size n is accepted if and only if 0 <= k < n; otherwise the
\* checker raises its error with a message that gives k and the range
\* [0, n-1].
C13_LiteralIndexInBounds ==
    AtIndexUse =>
        IF /\ 0 <= IndexOf(Last(run.stack).v.a[1])
           /\ IndexOf(Last(run.stack).v.a[1]) < SizeOf(run.checker, Last(run.stack).v.a[1])
        THEN Answer(run.checker, Last(run.stack).v.a[1]).out = "ok"
        ELSE /\ Answer(run.checker, Last(run.stack).v.a[1]).out = "SyntaxError"
             /\ Answer(run.checker, Last(run.stack).v.a[1]).val
                    = [of |-> "array", index |-> IndexOf(Last(run.stack).v.a[1]),
                       range |-> <<0, SizeOf(run.checker, Last(run.stack).v.a[1]) - 1>>]

\* the checker is at an assignment to the element just past the end of an
\* array of two elements, after a read in bounds was accepted
C13_Witness ==
    /\ AtIndexUse
    /\ Last(run.stack).v.a[1].type = "Assign"
    /\ IndexOf(Last(run.stack).v.a[1]) = 2
    /\ SizeOf(run.checker, Last(run.stack).v.a[1]) = 2
    /\ ScopeOf(run.checker, <<"y">>) # 0

(***************************************************************************)
(* Properties of types_equal                                               *)
(***************************************************************************)
\* the form of a type
Form(t) ==
    IF IsStr(t) \/ "id" \in DOMAIN t THEN "i32"
    ELSE IF "array" \in DOMAIN t THEN "array"
    ELSE IF "ref" \in DOMAIN t THEN "ref"
    ELSE "tuple"

\* two types have the same form and equal components
RECURSIVE SameType(_, _)
SameType(t, u) ==
    /\ Form(t) = Form(u)
    /\ CASE Form(t) = "i32" -> TRUE
         [] Form(t) = "array" -> t.size = u.size /\ SameType(t.array, u.array)
         [] Form(t) = "ref" -> t.ref = u.ref /\ SameType(t.to, u.to)
         [] Form(t) = "tuple" ->
               /\ Len(t.tuple) = Len(u.tuple)
               /\ \A i \in DOMAIN t.tuple : SameType(t.tuple[i], u.tuple[i])

\* C14: types_equal is reflexive and symmetric, and it is true exactly of
\* two types of the same form with equal components: arrays of one size and
\* element type, references of one mutability and target, tuples of one
\* arity and the same elements in order.
C14_TypesEqualStructural ==
    run.stage = "compared" =>
        /\ run.ret.self
        /\ run.ret.back = run.ret.equal
        /\ run.ret.equal = SameType(run.ret.type1, run.ret.type2)

\* two arrays of the same nested element type and of different sizes were
\* compared
C14_Witness ==
    /\ run.stage = "compared"
    /\ Form(run.ret.type1) = "array"
    /\ Form(run.ret.type2) = "array"
    /\ Form(run.ret.type1.array) = "tuple"
    /\ SameType(run.ret.type1.array, run.ret.type2.array)
    /\ run.ret.type1.size # run.ret.type2.size
    /\ ~run.ret.equal

(***************************************************************************)
(* Properties of the errors                                                *)
(***************************************************************************)
\* C15: when the parser or the checker fails, on any tree the parser gives
\* (a function whose body is an expression, a for loop over a range), the
\* exception is the syntax error and analyze reports it in the category
\* 'syntax'.
C15_FailuresAreSyntaxErrors ==
    (run.stage = "except" /\ run.check # "ok") => Category(run.out) = "syntax"

(***************************************************************************)
(* Properties of the quadruples gen returns                                *)
(***************************************************************************)
\* the places of the LABEL quadruples in a list
LabelsOf(ir) == {i \in DOMAIN ir : ir[i].op = LABEL}

\* C16: in the list gen returns no two LABEL quadruples have the same name
\* in arg1, over all the functions of the program.
C16_LabelsDefinedOnce ==
    \A i \in LabelsOf(run.ir) : \A j \in LabelsOf(run.ir) :
        run.ir[i].arg1 = run.ir[j].arg1 => i = j

\* gen returned a list with LABEL quadruples of two functions
C16_Witness ==
    /\ run.stage = "lowered"
    /\ \E i \in LabelsOf(run.ir) : \E j \in LabelsOf(run.ir) :
          \E k \in DOMAIN run.ir : i < k /\ k < j /\ run.ir[k].op = ENDFUNC

\* the names the LABEL quadruples of a list define
NamesOf(ir) == {ir[i].arg1 : i \in LabelsOf(ir)}

\* C17: in the list gen returns, after remove_unused_labels, the arg1 of
\* every GOTO and the res of every IFZ and IFNZ is the name of a LABEL
\* quadruple of the list.
C17_TargetsAreLabels ==
    \A i \in DOMAIN run.ir :
        /\ run.ir[i].op = GOTO => run.ir[i].arg1 \in NamesOf(run.ir)
        /\ run.ir[i].op \in {IFZ, IFNZ} => run.ir[i].res \in NamesOf(run.ir)

\* C18: every call of gen numbers its labels from L0 and its temporaries
\* from t0: a second call of gen on the same validated tree, on the same
\* generator or on a new one, returns the list the first call returned.
C18_SameListEveryCall ==
    (run.stage = "lowered" /\ run.check = "ok" /\ run.calls = 2) => run.ir = run.ir0

\* the names that are the target of a jump of a list: arg1 of a GOTO, res
\* of an IFZ or IFNZ
Targets(Q) ==
    {Q[k].arg1 : k \in {j \in DOMAIN Q : Q[j].op = GOTO}}
    \cup {Q[k].res : k \in {j \in DOMAIN Q : Q[j].op \in {IFZ, IFNZ}}}

\* a list without the LABEL quadruples whose name is not in T, the others
\* in their order
RECURSIVE Targeted(_, _)
Targeted(Q, T) ==
    IF Q = <<>> THEN <<>>
    ELSE (IF Head(Q).op = LABEL /\ Head(Q).arg1 \notin T THEN <<>> ELSE <<Head(Q)>>)
         \o Targeted(Tail(Q), T)

\* the number of calls on the stack: every call and every return changes it
depth == Len(run.stack)

\* gen is about to run the post-pass on its quadruples and to return them
PostPass ==
    /\ run.stage \in {"gen", "lower"}
    /\ Len(run.stack) = 1
    /\ Last(run.stack).fn = "gen"
    /\ Last(run.stack).pc = 1
    /\ Last(run.stack).v.i > Len(Last(run.stack).v.a.decls)

\* C24: remove_unused_labels deletes a LABEL quadruple exactly when its name
\* is the target of no GOTO, IFZ or IFNZ of the list, and leaves the other
\* quadruples and their order as they are.
C24_OnlyUntargetedLabelsRemoved ==
    [][PostPass =>
          run'.ir = Targeted(run.irgen.quadruples, Targets(run.irgen.quadruples))]_depth

(***************************************************************************)
(* Properties of the loops                                                 *)
(***************************************************************************)
\* the call of a loop's lowering is at the place where its body is lowered
InBody(frame) ==
    \/ frame.fn = "gen_while_stmt" /\ frame.pc = 1
    \/ frame.fn = "gen_for_stmt" /\ frame.pc = 3
    \/ frame.fn = "gen_loop_stmt" /\ frame.pc = 1
    \/ frame.fn = "gen_expr" /\ frame.pc = 60

\* the start label and the end label of the loop a call lowers
PairOf(frame) ==
    IF frame.fn \in {"gen_while_stmt", "gen_for_stmt"}
    THEN <<frame.v.label_cond, frame.v.label_end>>
    ELSE <<frame.v.label_start, frame.v.label_end>>

\* the calls on the stack that lower a loop whose body holds the node being
\* lowered
Bodies(stack) == {i \in DOMAIN stack : InBody(stack[i])}

\* the innermost of them
Innermost(stack) == CHOOSE i \in Bodies(stack) : \A j \in Bodies(stack) : j <= i

\* gen_break_stmt or gen_continue_stmt is about to take its target from the
\* loop stack
Jumping ==
    /\ run.stage \in {"gen", "lower"}
    /\ run.stack # <<>>
    /\ Last(run.stack).fn \in {"gen_break_stmt", "gen_continue_stmt"}
    /\ Last(run.stack).pc = 0
    /\ run.irgen.loop_stack # <<>>

\* C19: the GOTO of a break goes to the end label, and the GOTO of a
\* continue to the start label, of the innermost loop whose body holds it
\* in the source: the pair the jump takes from the loop stack is the pair
\* of that loop.
C19_JumpToInnermostLoop ==
    (Jumping /\ Bodies(run.stack) # {}) =>
        Last(run.irgen.loop_stack) = PairOf(run.stack[Innermost(run.stack)])

\* the calls of gen_while_stmt on the stack that have made their labels
Whiles ==
    IF run.stage \in {"gen", "lower"}
    THEN {i \in DOMAIN run.stack :
             run.stack[i].fn = "gen_while_stmt" /\ run.stack[i].pc \in {1, 2}}
    ELSE {}

\* a quadruple of one argument
Quad(op, arg1) == [op |-> op, arg1 |-> arg1, arg2 |-> <<>>, res |-> <<>>]

\* the places in the quadruples where GOTO Lcond; LABEL Ltop of a while are
Heads(Q, v) ==
    {k \in DOMAIN Q : /\ k < Len(Q)
                      /\ Q[k] = Quad(GOTO, v.label_cond)
                      /\ Q[k + 1] = Quad(LABEL, v.label_start)}

\* the quadruples that end a while are there
Ended(Q, v) ==
    \E k \in DOMAIN Q : \/ Q[k] = Quad(LABEL, v.label_end)
                        \/ Q[k].op = IFNZ /\ Q[k].res = v.label_start

\* the quadruples of a while so far are in the order GOTO Lcond; LABEL Ltop;
\* body, and then LABEL Lcond; condition
InOrder(Q, frame) ==
    /\ Heads(Q, frame.v) # {}
    /\ ~Ended(Q, frame.v)
    /\ \A k \in Heads(Q, frame.v) :
          (frame.pc = 2) = (\E m \in DOMAIN Q : m > k + 1 /\ Q[m] = Quad(LABEL, frame.v.label_cond))

\* a call above the i-th lowers a loop, and its pair is on the loop stack
LoopAbove(i) ==
    \E j \in DOMAIN run.stack :
        /\ j > i
        /\ \/ run.stack[j].fn \in {"gen_while_stmt", "gen_loop_stmt"} /\ run.stack[j].pc > 0
           \/ run.stack[j].fn = "gen_for_stmt" /\ run.stack[j].pc = 3
           \/ run.stack[j].fn = "gen_expr" /\ run.stack[j].pc = 60

\* the pair of the i-th call is on the loop stack, on top when no loop is
\* being lowered inside
PairPushed(i) ==
    /\ \E j \in DOMAIN run.irgen.loop_stack : run.irgen.loop_stack[j] = PairOf(run.stack[i])
    /\ ~LoopAbove(i) => Last(run.irgen.loop_stack) = PairOf(run.stack[i])

\* the pair of the i-th call is not on the loop stack
PairNotPushed(i) ==
    \A j \in DOMAIN run.irgen.loop_stack : run.irgen.loop_stack[j] # PairOf(run.stack[i])

\* the call of gen_while_stmt on top of the stack has the condition and ends
WhileEnds ==
    /\ Whiles # {}
    /\ Len(run.stack) \in Whiles
    /\ Last(run.stack).pc = 2

\* the quadruples after the step are those before and IFNZ c,,Ltop; LABEL Lend
EndsInOrder ==
    run'.irgen.quadruples =
        run.irgen.quadruples \o
            << [op |-> IFNZ, arg1 |-> run.ret, arg2 |-> <<>>,
                res |-> Last(run.stack).v.label_start],
               Quad(LABEL, Last(run.stack).v.label_end) >>

\* C20: a while statement is lowered to GOTO Lcond; LABEL Ltop; body;
\* LABEL Lcond; condition; IFNZ c,,Ltop; LABEL Lend in this order, and the
\* pair (Lcond, Lend) is on the loop stack while the body is lowered and
\* not while the condition is.
C20_WhileLowering ==
    /\ [](\A i \in Whiles :
             /\ InOrder(run.irgen.quadruples, run.stack[i])
             /\ (run.stack[i].pc = 1 /\ i < Len(run.stack)) => PairPushed(i)
             /\ (run.stack[i].pc = 2 /\ i < Len(run.stack)) => PairNotPushed(i))
    /\ [][WhileEnds => EndsInOrder]_depth

(***************************************************************************)
(* Properties of the quadruples of a statement                             *)
(***************************************************************************)
\* the generator is running
Lowers == run.stage \in {"gen", "lower"} /\ run.stack # <<>>

\* the calls of gen_for_stmt on the stack that lower the body
Fors ==
    IF Lowers
    THEN {i \in DOMAIN run.stack : run.stack[i].fn = "gen_for_stmt" /\ run.stack[i].pc = 3}
    ELSE {}

\* a quadruple
Quadruple(op, arg1, arg2, res) == [op |-> op, arg1 |-> arg1, arg2 |-> arg2, res |-> res]

\* the names the quadruples of a list hold
UsedNames(Q) == UNION {{Q[k].arg1, Q[k].arg2, Q[k].res} : k \in DOMAIN Q}

\* the quadruples hold i = a; GOTO Lcond; LABEL Lbody of a for, and none of
\* the quadruples that follow its body
ForInBody(Q, v) ==
    /\ \E k \in DOMAIN Q :
          /\ k + 2 <= Len(Q)
          /\ Q[k] = Quadruple(<<"=">>, v.a.iter.name, v.start, <<>>)
          /\ Q[k + 1] = Quad(GOTO, v.label_cond)
          /\ Q[k + 2] = Quad(LABEL, v.label_body)
    /\ \A k \in DOMAIN Q :
          /\ Q[k] # Quad(LABEL, v.label_cond)
          /\ Q[k] # Quad(LABEL, v.label_end)
          /\ ~(Q[k].op = IFNZ /\ Q[k].res = v.label_body)

\* gen_for_stmt has the values of a and b and goes on
ForBegins ==
    /\ Lowers
    /\ Last(run.stack).fn = "gen_for_stmt"
    /\ Last(run.stack).pc = 2

\* the quadruples after the step are those before and i = a; GOTO Lcond;
\* LABEL Lbody, of two labels that are new
BeginsInOrder ==
    \E Lcond, Lbody \in {<<"L">> \o str(n) : n \in 0..(run.irgen.label_count + 2)} :
        /\ Lcond # Lbody
        /\ {Lcond, Lbody} \cap UsedNames(run.irgen.quadruples) = {}
        /\ run'.irgen.quadruples =
              run.irgen.quadruples \o
                  << Quadruple(<<"=">>, Last(run.stack).v.a.iter.name,
                               Last(run.stack).v.start, <<>>),
                     Quad(GOTO, Lcond),
                     Quad(LABEL, Lbody) >>

\* the body of the for of the call on top of the stack was lowered
ForEnds ==
    /\ Fors # {}
    /\ Len(run.stack) \in Fors

\* the quadruples after the step are those before and i = i + 1;
\* LABEL Lcond; t = i < b; IFNZ t,,Lbody; LABEL Lend, of a temporary t
\* that is new
ForEndsInOrder ==
    LET v == Last(run.stack).v
    IN  \E t \in {<<"t">> \o str(n) : n \in 0..run.irgen.temp_count} :
            /\ t \notin UsedNames(run.irgen.quadruples)
            /\ run'.irgen.quadruples =
                  run.irgen.quadruples \o
                      << Quadruple(<<"+">>, v.a.iter.name, <<"1">>, v.a.iter.name),
                         Quad(LABEL, v.label_cond),
                         Quadruple(<<"<">>, v.a.iter.name, v.end, t),
                         Quadruple(IFNZ, t, <<>>, v.label_body),
                         Quad(LABEL, v.label_end) >>

\* C21: a for over a range a..b is lowered to the evaluation of a and b;
\* i = a; GOTO Lcond; LABEL Lbody; body; i = i + 1; LABEL Lcond; t = i < b
\* of a new temporary t; IFNZ t,,Lbody; LABEL Lend, in this order.
C21_ForLowering ==
    /\ [](\A i \in Fors : i < Len(run.stack) =>
             ForInBody(run.irgen.quadruples, run.stack[i].v))
    /\ [][ForBegins => BeginsInOrder]_depth
    /\ [][ForEnds => ForEndsInOrder]_depth

\* gen returned the quadruples of a for over a range
C21_Witness ==
    /\ run.stage = "lowered"
    /\ \E k \in DOMAIN run.ir :
          /\ k < Len(run.ir)
          /\ run.ir[k].op = <<"<">>
          /\ run.ir[k + 1].op = IFNZ

\* the calls of gen_if_stmt on the stack that lower a branch
Ifs ==
    IF Lowers
    THEN {i \in DOMAIN run.stack : run.stack[i].fn = "gen_if_stmt" /\ run.stack[i].pc \in {2, 3}}
    ELSE {}

\* the quadruples of an if so far: IFZ c,,Lelse and the then-branch, or
\* these and GOTO Lend; LABEL Lelse and the else-branch
IfInOrder(Q, frame) ==
    /\ \E k \in DOMAIN Q : Q[k].op = IFZ /\ Q[k].res = frame.v.label_else
    /\ \A k \in DOMAIN Q : Q[k] # Quad(LABEL, frame.v.label_end)
    /\ frame.pc = 2 => frame.v.label_end \notin UsedNames(Q)
    /\ frame.pc = 2 => \A k \in DOMAIN Q : Q[k] # Quad(LABEL, frame.v.label_else)
    /\ frame.pc = 3 =>
          \E k \in DOMAIN Q : /\ k < Len(Q)
                              /\ Q[k] = Quad(GOTO, frame.v.label_end)
                              /\ Q[k + 1] = Quad(LABEL, frame.v.label_else)

\* gen_if_stmt has the value of the condition and goes on
IfBegins ==
    /\ Lowers
    /\ Last(run.stack).fn = "gen_if_stmt"
    /\ Last(run.stack).pc = 1

\* the quadruples after the step are those before and IFZ c,,Lelse of a
\* label that is new
IfBeginsInOrder ==
    \E Lelse \in {<<"L">> \o str(n) : n \in 0..(run.irgen.label_count + 1)} :
        /\ Lelse \notin UsedNames(run.irgen.quadruples)
        /\ run'.irgen.quadruples =
              run.irgen.quadruples \o << Quadruple(IFZ, run.ret, <<>>, Lelse) >>

\* a branch of the if of the call on top of the stack was lowered
BranchEnds ==
    /\ Ifs # {}
    /\ Len(run.stack) \in Ifs

\* the quadruples after the step are those before and, after the
\* then-branch, GOTO Lend; LABEL Lelse when there is an else branch and
\* LABEL Lelse alone when there is none, and after the else-branch LABEL Lend
BranchEndsInOrder ==
    LET v == Last(run.stack).v
        Q == run.irgen.quadruples
    IN  run'.irgen.quadruples =
            IF Last(run.stack).pc = 3 THEN Q \o << Quad(LABEL, v.label_end) >>
            ELSE IF v.a.else # None
            THEN Q \o << Quad(GOTO, v.label_end), Quad(LABEL, v.label_else) >>
            ELSE Q \o << Quad(LABEL, v.label_else) >>

\* C23: an if statement is lowered to the evaluation of c; IFZ c,,Lelse;
\* the then-branch; and with an else branch GOTO Lend; LABEL Lelse; the
\* else-branch; LABEL Lend, without one LABEL Lelse alone and nothing of
\* Lend.
C23_IfLowering ==
    /\ [](\A i \in Ifs : i < Len(run.stack) =>
             IfInOrder(run.irgen.quadruples, run.stack[i]))
    /\ [][IfBegins => IfBeginsInOrder]_depth
    /\ [][BranchEnds => BranchEndsInOrder]_depth

\* an if without else branch was lowered, after a condition that has
\* quadruples: its LABEL Lelse is the last quadruple
C23_Witness ==
    /\ Lowers
    /\ \E k \in DOMAIN run.irgen.quadruples :
          /\ 1 < k
          /\ run.irgen.quadruples[k].op = IFZ
          /\ run.irgen.quadruples[k - 1].res = run.irgen.quadruples[k].arg1
          /\ run.irgen.quadruples[Len(run.irgen.quadruples)] =
                Quad(LABEL, run.irgen.quadruples[k].res)

(***************************************************************************)
(* Properties of the loop expressions                                      *)
(***************************************************************************)
\* break_result_f of the function f being lowered
Slot == BreakResult \o run.irgen.current_function

\* the calls of gen_expr on the stack that lower the body of a loop
\* expression
LoopExprs ==
    IF Lowers
    THEN {i \in DOMAIN run.stack : run.stack[i].fn = "gen_expr" /\ run.stack[i].pc = 60}
    ELSE {}

\* the quadruples hold LABEL Ltop of a loop expression, after the LET of the
\* slot, and neither LABEL Lend nor a use of its temporary
LoopExprInBody(Q, v) ==
    /\ \E k \in DOMAIN Q :
          /\ k < Len(Q)
          /\ Q[k] = Quad(LETOP, Slot)
          /\ Q[k + 1] = Quad(LABEL, v.label_start)
    /\ \A k \in DOMAIN Q : Q[k] # Quad(LABEL, v.label_end)
    /\ v.result \notin UsedNames(Q)

\* the body of the loop expression of the call on top of the stack was
\* lowered
LoopExprEnds ==
    /\ LoopExprs # {}
    /\ Len(run.stack) \in LoopExprs

\* the quadruples after the step are those before and GOTO Ltop; LABEL Lend;
\* t = break_result_f, and t is the value of the expression
LoopExprEndsInOrder ==
    LET v == Last(run.stack).v
    IN  /\ run'.irgen.quadruples =
              run.irgen.quadruples \o
                  << Quad(GOTO, v.label_start),
                     Quad(LABEL, v.label_end),
                     Quadruple(<<"=">>, v.result, Slot, <<>>) >>
        /\ run'.ret = v.result

\* the value of a break was lowered
BreakEnds ==
    /\ Lowers
    /\ Last(run.stack).fn = "gen_break_stmt"
    /\ Last(run.stack).pc = 1

\* the quadruples after the step are those before and break_result_f = v;
\* GOTO Lend, of the loop on top of the loop stack
BreakEndsInOrder ==
    /\ run.irgen.loop_stack # <<>>
    /\ run'.irgen.quadruples =
          run.irgen.quadruples \o
              << Quadruple(<<"=">>, Slot, run.ret, <<>>),
                 Quad(GOTO, Last(run.irgen.loop_stack)[2]) >>

\* a name is the slot of a function
IsSlot(name) ==
    /\ Len(name) > Len(BreakResult)
    /\ SubSeq(name, 1, Len(BreakResult)) = BreakResult

\* the places where a loop expression ends in the quadruples: GOTO Ltop;
\* LABEL Lend; t = break_result_f, the place of the LABEL
LoopExprTails(Q) ==
    {k \in DOMAIN Q : /\ 1 < k /\ k < Len(Q)
                      /\ Q[k - 1].op = GOTO
                      /\ Q[k].op = LABEL
                      /\ Q[k + 1].op = <<"=">> /\ IsSlot(Q[k + 1].arg2)}

\* the list returned holds, for every loop expression, LABEL Ltop, and
\* GOTO Ltop; LABEL Lend; t = break_result_f side by side
AllReturned ==
    \A k \in LoopExprTails(run.irgen.quadruples) :
        LET Q == run.irgen.quadruples
        IN  /\ \E j \in DOMAIN run'.ir : run'.ir[j] = Quad(LABEL, Q[k - 1].arg1)
            /\ \E j \in DOMAIN run'.ir :
                  /\ j + 2 <= Len(run'.ir)
                  /\ run'.ir[j] = Q[k - 1]
                  /\ run'.ir[j + 1] = Q[k]
                  /\ run'.ir[j + 2] = Q[k + 1]

\* the list returned holds, for every loop expression, LABEL Ltop, and
\* GOTO Ltop and t = break_result_f with LABEL Lend or nothing between them;
\* LABEL Lend is there when a GOTO Lend is
TailsReturned ==
    \A k \in LoopExprTails(run.irgen.quadruples) :
        LET Q == run.irgen.quadruples
        IN  /\ \E j \in DOMAIN run'.ir : run'.ir[j] = Quad(LABEL, Q[k - 1].arg1)
            /\ \E j \in DOMAIN run'.ir :
                  /\ run'.ir[j] = Q[k - 1]
                  /\ \/ /\ j + 2 <= Len(run'.ir)
                        /\ run'.ir[j + 1] = Q[k]
                        /\ run'.ir[j + 2] = Q[k + 1]
                     \/ /\ j + 1 <= Len(run'.ir)
                        /\ run'.ir[j + 1] = Q[k + 1]
                        /\ \A m \in DOMAIN run'.ir : run'.ir[m] # Quad(GOTO, Q[k].arg1)

BodyStmts == run.ast.decls[1].body.stmts

\* the last item of the block is in front of ; in the source
BeforeSemicolon == code[Len(code) - 2] = ";"

\* a statement is an ExprStmt with tail = true
IsTail(stmt) == stmt.type = "ExprStmt" /\ "tail" \in DOMAIN stmt /\ stmt.tail = TRUE

\* a statement is an ExprStmt without the flag
IsExprStmt(stmt) == stmt.type = "ExprStmt" /\ ~("tail" \in DOMAIN stmt /\ stmt.tail = TRUE)

\* C25: a block whose last item is an expression, of any form of the
\* grammar's expr, if ... else ... and loop ... among them, in front of }
\* has as its last statement an ExprStmt with tail = true; when the
\* expression is in front of ; the statement is an ExprStmt without the flag.
C25_TailExpression ==
    run.stage # "parse" =>
        /\ run.ast # None
        /\ BodyStmts # <<>>
        /\ IF BeforeSemicolon THEN IsExprStmt(Last(BodyStmts)) ELSE IsTail(Last(BodyStmts))

(***************************************************************************)
(* Properties of the scopes                                                *)
(***************************************************************************)
\* the checker is running
Checks == run.stage = "check" /\ run.stack # <<>>

\* the calls on the stack that have pushed their scope: of check_function,
\* check_block and check_for
Scoping ==
    {i \in DOMAIN run.stack :
        /\ run.stack[i].fn \in {"check_function", "check_block", "check_for"}
        /\ run.stack[i].pc >= 1}

\* the calls of check_stmt on the stack that check a loop
Looping ==
    {i \in DOMAIN run.stack : run.stack[i].fn = "check_stmt" /\ run.stack[i].pc \in {1, 2}}

\* the names a call may have declared in its scope so far: the parameters
\* of the function, the names of the lets of the block that were reached,
\* the variable of the for
DeclaredBy(frame) ==
    CASE frame.fn = "check_function" ->
            {frame.v.a.params[k].name : k \in DOMAIN frame.v.a.params}
      [] frame.fn = "check_block" ->
            {frame.v.a[1].stmts[k].name :
                k \in {j \in DOMAIN frame.v.a[1].stmts :
                          j < frame.v.i /\ frame.v.a[1].stmts[j].type = "Let"}}
      [] frame.fn = "check_for" -> {frame.v.a[1].iter.name}

\* the place in the scope stack of the scope of the i-th call
ScopeAt(i) == 1 + Cardinality({j \in Scoping : j <= i})

\* C26: the scopes are a stack: the global scope and above it one scope for
\* every function, block and for being checked, in their order, each with
\* the names declared in that construct only, so that the depth after a
\* construct is the depth before it and the names declared in it are gone;
\* the loop depth is the number of loops being checked; after check()
\* accepted a program the stack holds the global scope only and the loop
\* depth is 0.
C26_ScopesAreAStack ==
    /\ Checks =>
          /\ Len(run.checker.scopes) = 1 + Cardinality(Scoping)
          /\ run.checker.in_loop = Cardinality(Looping)
          /\ DOMAIN run.checker.scopes[1] = {}
          /\ \A i \in Scoping :
                DOMAIN run.checker.scopes[ScopeAt(i)] \subseteq DeclaredBy(run.stack[i])
    /\ run.check = "ok" =>
          /\ run.checker.scopes = <<EmptyDict>>
          /\ run.checker.in_loop = 0

\* check() accepted a program that declares a name in the block of a loop
\* inside the block of the function
C26_Witness ==
    /\ run.check = "ok"
    /\ \E k \in DOMAIN run.ast.decls[1].body.stmts :
          LET stmt == run.ast.decls[1].body.stmts[k]
          IN  /\ stmt.type \in {"While", "Loop", "For"}
              /\ \E j \in DOMAIN stmt.body.stmts : stmt.body.stmts[j].type = "Let"

(***************************************************************************)
(* Properties of the references                                            *)
(***************************************************************************)
\* the refs lists of the symbols, by scope and name
RefsOf ==
    IF run.checker = None THEN <<>>
    ELSE [i \in DOMAIN run.checker.scopes |->
             [n \in DOMAIN run.checker.scopes[i] |-> run.checker.scopes[i][n].refs]]

\* a list is empty, or one 'mut', or 'imm's only
WellFormed(refs) ==
    \/ refs = <<>>
    \/ refs = <<"mut">>
    \/ \A k \in DOMAIN refs : refs[k] = "imm"

\* a list is the beginning of another
IsPrefix(s, t) == Len(s) <= Len(t) /\ SubSeq(t, 1, Len(s)) = s

\* the step checks a let of the name: the symbol of the name in the
\* innermost scope is replaced by a new one
Redeclares(n) ==
    /\ run.stack # <<>>
    /\ Last(run.stack).fn = "check_stmt"
    /\ Last(run.stack).pc = 0
    /\ Last(run.stack).v.a[1].type = "Let"
    /\ Last(run.stack).v.a[1].name = n

\* the lists of the symbols that stay are the lists before, or longer
OnlyGrows ==
    \A i \in DOMAIN RefsOf \cap DOMAIN RefsOf' :
        \A n \in DOMAIN RefsOf[i] \cap DOMAIN RefsOf'[i] :
            \/ IsPrefix(RefsOf[i][n], RefsOf'[i][n])
            \/ i = Len(RefsOf) /\ Redeclares(n)

\* C27: in every state of the checker the refs list of every symbol is
\* empty, or one 'mut', or one or more 'imm' and no 'mut'; the list of a
\* symbol only grows as long as the symbol is there.
C27_RefsWellFormed ==
    /\ [](\A i \in DOMAIN RefsOf : \A n \in DOMAIN RefsOf[i] : WellFormed(RefsOf[i][n]))
    /\ [][OnlyGrows]_RefsOf

\* a symbol has two 'imm' references
C27_Witness ==
    \E i \in DOMAIN RefsOf : \E n \in DOMAIN RefsOf[i] : RefsOf[i][n] = <<"imm", "imm">>

(***************************************************************************)
(* Termination of the parser                                               *)
(***************************************************************************)
\* the beginnings of the sources
Beginnings(sources) == UNION {{SubSeq(s, 1, n) : n \in 0..Len(s)} : s \in sources}

\* the sources of the runs: the ones of the parser, programs with
\* expressions, loops and blocks, and programs cut off
EndingSources ==
    Sources \cup TailPrograms \cup LoopExprPrograms \cup ScopePrograms
            \cup Beginnings(TailPrograms)

InitEnding == Analyzing(EndingSources)

SpecEnding == InitEnding /\ [][NextAnalyze]_vars

\* the lexer has given EOF to its caller
EofConsumed ==
    \/ lx.eof_emitted
    \/ \E i \in DOMAIN lx.emitted : lx.emitted[i].type = "EOF"

\* C29: parse_program ends on every source, with the tree or with a syntax
\* error: it is over before its step MaxSteps, no loop of the parser or of
\* the lexer under it runs for ever, and up to the drain of analyze the EOF
\* token is not consumed.
C29_ParserTerminates ==
    /\ run.steps < MaxSteps
    /\ run.stage # "hang"
    /\ run.stage \in {"parse", "check", "gen", "drain", "except"} => ~EofConsumed
    /\ run.stage = "done" => EofConsumed

\* a source on which the parser went back to a mark, and which it has parsed
C29_Witness ==
    /\ run.stage = "check"
    /\ run.ast.decls # <<>>
    /\ lx.pos = Len(code)
    /\ \E i \in DOMAIN run.ast.decls[1].body.stmts :
           /\ run.ast.decls[1].body.stmts[i].type = "ExprStmt"
           /\ "tail" \in DOMAIN run.ast.decls[1].body.stmts[i]

(***************************************************************************)
(* Properties of continue in a for                                         *)
(***************************************************************************)
\* the places of the quadruples of the body of the for with locals v
BodyOf(Q, v) ==
    {j \in DOMAIN Q : \E b \in DOMAIN Q : b < j /\ Q[b] = Quad(LABEL, v.label_body)}

\* i = i + 1
Increment(name) == Quadruple(<<"+">>, name, <<"1">>, name)

\* C30: in the quadruples of a for over a range, i = i + 1 lies between the
\* end of the body and the test, and every jump of the body to a label that lies
\* before the test t = i < b lands on or before i = i + 1: a continue does
\* not reach the test with i as it was.
C30_ContinueIncrements ==
    [][ForEnds =>
          LET v == Last(run.stack).v
              Q == run.irgen.quadruples
              Q2 == run'.irgen.quadruples
              Closing == (Len(Q) + 1)..Len(Q2)
          IN  /\ \A t \in Closing :
                     Q2[t].op = <<"<">>
                     => \E m \in Closing : m < t /\ Q2[m] = Increment(v.a.iter.name)
              /\ \A j \in BodyOf(Q, v) : \A p, t \in Closing :
                     (/\ Q[j].op = GOTO
                      /\ Q2[p] = Quad(LABEL, Q[j].arg1)
                      /\ Q2[t].op = <<"<">>
                      /\ p < t)
                     => \E m \in p..t : Q2[m] = Increment(v.a.iter.name)]_depth
====
